---- MODULE Spec2Model ----
(***************************************************************************)
(* Background job execution and maintenance policies of                    *)
(* tsl/src/bgw_policy (job.c, job_api.c).                                  *)
(*                                                                         *)
(* SpecExec      job_execute and its transaction / snapshot framing        *)
(***************************************************************************)
EXTENDS Integers, Sequences, FiniteSets, TLC

VARIABLES
    \* ---- ambient transaction state of the backend (access/xact.h, utils/snapmgr.h)
    xactOpen,            \* IsTransactionOrTransactionBlock()
    xid,                 \* identity of the transaction that is open (0 when none)
    nextXid,             \* identity the next StartTransactionCommand hands out
    committed,           \* identities of the transactions committed so far
    snapStack,           \* active snapshot stack, top is the last element
    \* ---- one call of job_execute
    pc,                  \* position of the call
    transaction_started, \* job.c:450
    pushed_snapshot,     \* job.c:451
    prokind,             \* job.c:476
    entry,               \* ambient state found at entry
    callable,            \* what the target callable did in this call
    dispatches,          \* number of dispatches of the callable in this call
    execCommits,         \* transactions committed by job_execute itself in this call
    execPops,            \* snapshots popped by job_execute itself in this call
    errcode,             \* error that left the call, "" when none
    \* ---- catalog and storage
    now,                 \* GetCurrentTransactionStartTimestamp() / integer now()
    hypertables,         \* ids of the hypertables that exist
    chunks,              \* sequence of chunk rows, chunk id = position
    chunkStats,          \* bgw_policy_chunk_stats: <<job id, chunk id>> pairs
    jobs,                \* bgw_job rows by job id
    jobSeq,              \* last value handed out by the bgw_job id sequence
    jobStat,             \* bgw_job_stat rows by job id
    run,                 \* what the last policy run did
    call,                \* what the last add_job / alter_job / delete_job call did
    \* ---- backends working on the catalog at the same time
    sessions,            \* the alter_job call each client backend is in
    worker,              \* the policy run the background worker is in
    tuplock              \* backend holding the tuple lock on the bgw_job row, 0 when none

execVars == <<xactOpen, xid, nextXid, committed, snapStack, pc, transaction_started,
              pushed_snapshot, prokind, entry, callable, dispatches, execCommits,
              execPops, errcode>>

catVars == <<now, hypertables, chunks, chunkStats, jobs, jobSeq, jobStat, run, call,
             sessions, worker, tuplock>>

vars == <<xactOpen, xid, nextXid, committed, snapStack, pc, transaction_started,
          pushed_snapshot, prokind, entry, callable, dispatches, execCommits,
          execPops, errcode, now, hypertables, chunks, chunkStats, jobs, jobSeq, jobStat,
          run, call, sessions, worker, tuplock>>

(***************************************************************************)
(* Bounds                                                                  *)
(***************************************************************************)
\* transactions started in one behaviour
MaxXid == 6
\* snapshots the caller of job_execute may hold at entry
MaxCallerSnaps == 2

(***************************************************************************)
(* job_execute                                                             *)
(***************************************************************************)
PROKIND_FUNCTION == "f"
PROKIND_PROCEDURE == "p"
\* get_func_prokind: function, procedure, aggregate, window
ProKinds == {PROKIND_FUNCTION, PROKIND_PROCEDURE, "a", "w"}

Snapshot(owner, x) == [owner |-> owner, xid |-> x]

ActiveSnapshotSet(stack) == stack # <<>>

Top(stack) == stack[Len(stack)]

Pop(stack) == SubSeq(stack, 1, Len(stack) - 1)

\* the ambient states a caller can hand over: the scheduler's worker calls with no
\* transaction open, run_job calls inside the statement's transaction
CallerSnaps(x, n) == [i \in 1..n |-> Snapshot("caller", x)]

\* job.c:518 never popping
ShouldPopNever(pushed, stack) == FALSE

\* job.c:518 without the pushed_snapshot test
ShouldPopAnyActive(pushed, stack) == ActiveSnapshotSet(stack)

\* job.c:518 without the ActiveSnapshotSet test
ShouldPopUnchecked(pushed, stack) == pushed

\* job.c:518
ShouldPop(pushed, stack) == pushed /\ ActiveSnapshotSet(stack)

\* job.c:521 committing whatever transaction is open
ShouldCommitAlways(started) == TRUE

\* job.c:521
ShouldCommit(started) == started

\* a failure caught and the callable dispatched again
OnCallableFailureRetry == "ready"

\* job.c:499-511: no PG_TRY around the dispatch, the error leaves job_execute
OnCallableFailure == "error"

\* the entry that opens a transaction when there is none and pushes no snapshot
JobExecuteEnterNoSnapshot ==
    /\ pc = "idle"
    /\ LET started == ~xactOpen
           x       == IF started THEN nextXid ELSE xid
       IN /\ entry' = [open |-> xactOpen, xid |-> xid, stack |-> snapStack]
          /\ transaction_started' = started
          /\ xactOpen' = TRUE
          /\ xid' = x
          /\ nextXid' = IF started THEN nextXid + 1 ELSE nextXid
    /\ pushed_snapshot' = FALSE
    /\ callable' = "none"
    /\ dispatches' = 0
    /\ execCommits' = <<>>
    /\ execPops' = <<>>
    /\ \/ \E k \in ProKinds : prokind' = k /\ pc' = "ready" /\ errcode' = ""
       \/ prokind' = "?" /\ pc' = "error" /\ errcode' = "UndefinedFunction"
    /\ UNCHANGED <<committed, snapStack>>
    /\ UNCHANGED catVars

\* job.c:459-476: open a transaction and push a snapshot when there is none,
\* then resolve the callable
JobExecuteEnter ==
    /\ pc = "idle"
    /\ LET started == ~xactOpen
           x       == IF started THEN nextXid ELSE xid
           pushed  == ~ActiveSnapshotSet(snapStack)
       IN /\ entry' = [open |-> xactOpen, xid |-> xid, stack |-> snapStack]
          /\ transaction_started' = started
          /\ xactOpen' = TRUE
          /\ xid' = x
          /\ nextXid' = IF started THEN nextXid + 1 ELSE nextXid
          /\ pushed_snapshot' = pushed
          /\ snapStack' = IF pushed THEN Append(snapStack, Snapshot("job_execute", x))
                                    ELSE snapStack
    /\ callable' = "none"
    /\ dispatches' = 0
    /\ execCommits' = <<>>
    /\ execPops' = <<>>
    /\ \/ \E k \in ProKinds : prokind' = k /\ pc' = "ready" /\ errcode' = ""
       \* LookupFuncName(name, 2, proc_args, false) finds nothing
       \/ prokind' = "?" /\ pc' = "error" /\ errcode' = "UndefinedFunction"
    /\ UNCHANGED committed
    /\ UNCHANGED catVars

\* job.c:501-506: the callable runs and returns, leaving the transaction and the
\* snapshot stack as it found them
DispatchReturns ==
    /\ pc = "ready"
    /\ prokind \in {PROKIND_FUNCTION, PROKIND_PROCEDURE}
    /\ dispatches' = dispatches + 1
    /\ callable' = "plain"
    /\ pc' = "returned"
    /\ UNCHANGED <<xactOpen, xid, nextXid, committed, snapStack, transaction_started,
                   pushed_snapshot, prokind, entry, execCommits, execPops, errcode>>
    /\ UNCHANGED catVars

\* job.c:501-506, 513-517: the callable commits the transaction, which removes the
\* active snapshots, and starts a new transaction with no active snapshot
DispatchCommits ==
    /\ pc = "ready"
    /\ prokind \in {PROKIND_FUNCTION, PROKIND_PROCEDURE}
    /\ dispatches' = dispatches + 1
    /\ callable' = "commits"
    /\ committed' = committed \cup {xid}
    /\ snapStack' = <<>>
    /\ xactOpen' = TRUE
    /\ xid' = nextXid
    /\ nextXid' = nextXid + 1
    /\ pc' = "returned"
    /\ UNCHANGED <<transaction_started, pushed_snapshot, prokind, entry, execCommits,
                   execPops, errcode>>
    /\ UNCHANGED catVars

\* job.c:501-506: the callable raises an error
DispatchFails ==
    /\ pc = "ready"
    /\ prokind \in {PROKIND_FUNCTION, PROKIND_PROCEDURE}
    /\ dispatches' = dispatches + 1
    /\ callable' = "fails"
    /\ pc' = OnCallableFailure
    /\ errcode' = "CallableError"
    /\ UNCHANGED <<xactOpen, xid, nextXid, committed, snapStack, transaction_started,
                   pushed_snapshot, prokind, entry, execCommits, execPops>>
    /\ UNCHANGED catVars

\* a dispatch that calls whatever kind of callable was resolved
DispatchAnyKind ==
    /\ pc = "ready"
    /\ prokind \notin {PROKIND_FUNCTION, PROKIND_PROCEDURE}
    /\ dispatches' = dispatches + 1
    /\ callable' = "plain"
    /\ pc' = "returned"
    /\ UNCHANGED <<xactOpen, xid, nextXid, committed, snapStack, transaction_started,
                   pushed_snapshot, prokind, entry, execCommits, execPops, errcode>>
    /\ UNCHANGED catVars

\* job.c:507-510
DispatchUnsupported ==
    /\ pc = "ready"
    /\ prokind \notin {PROKIND_FUNCTION, PROKIND_PROCEDURE}
    /\ pc' = "error"
    /\ errcode' = "FeatureNotSupported"
    /\ UNCHANGED <<xactOpen, xid, nextXid, committed, snapStack, transaction_started,
                   pushed_snapshot, prokind, entry, callable, dispatches, execCommits,
                   execPops>>
    /\ UNCHANGED catVars

\* job.c:513-524: pop the snapshot, commit, return true.  PopActiveSnapshot with
\* no active snapshot and CommitTransactionCommand with no transaction in progress
\* end the backend ("crash").
JobExecuteExit ==
    /\ pc = "returned"
    /\ LET doPop    == ShouldPop(pushed_snapshot, snapStack)
           badPop   == doPop /\ ~ActiveSnapshotSet(snapStack)
           stack1   == IF doPop /\ ~badPop THEN Pop(snapStack) ELSE snapStack
           doCommit == ShouldCommit(transaction_started)
           badCommit == doCommit /\ (~xactOpen \/ xid \in committed)
       IN IF badPop \/ badCommit
          THEN /\ pc' = "crash"
               /\ UNCHANGED <<xactOpen, xid, committed, snapStack, execCommits, execPops>>
          ELSE /\ pc' = "done"
               /\ execPops' = IF doPop THEN Append(execPops, Top(snapStack)) ELSE execPops
               /\ IF doCommit
                  THEN /\ committed' = committed \cup {xid}
                       /\ execCommits' = Append(execCommits, xid)
                       /\ xactOpen' = FALSE
                       /\ xid' = 0
                       /\ snapStack' = <<>>
                  ELSE /\ snapStack' = stack1
                       /\ UNCHANGED <<committed, execCommits, xactOpen, xid>>
    /\ UNCHANGED <<nextXid, transaction_started, pushed_snapshot, prokind, entry,
                   callable, dispatches, errcode>>
    /\ UNCHANGED catVars

\* The caller after the call: the scheduler's worker or run_job's statement ends
\* (an error aborts the open transaction), and the next call finds one of the
\* ambient states a caller can set up; the locals of the call are gone.
CallerNext ==
    /\ pc \in {"done", "error", "crash"}
    /\ nextXid < MaxXid
    /\ pc' = "idle"
    /\ \/ /\ xactOpen' = FALSE
          /\ xid' = 0
          /\ snapStack' = <<>>
          /\ UNCHANGED nextXid
       \/ \E n \in 0..MaxCallerSnaps :
             /\ xactOpen' = TRUE
             /\ xid' = nextXid
             /\ nextXid' = nextXid + 1
             /\ snapStack' = CallerSnaps(nextXid, n)
    /\ transaction_started' = FALSE
    /\ pushed_snapshot' = FALSE
    /\ prokind' = "?"
    /\ callable' = "none"
    /\ dispatches' = 0
    /\ execCommits' = <<>>
    /\ execPops' = <<>>
    /\ errcode' = ""
    /\ entry' = [open |-> xactOpen', xid |-> xid', stack |-> snapStack']
    /\ UNCHANGED committed
    /\ UNCHANGED catVars

InitExec ==
    /\ pc = "idle"
    /\ nextXid = 1
    /\ committed = {}
    /\ xactOpen = FALSE
    /\ xid = 0
    /\ snapStack = <<>>
    /\ transaction_started = FALSE
    /\ pushed_snapshot = FALSE
    /\ prokind = "?"
    /\ entry = [open |-> FALSE, xid |-> 0, stack |-> <<>>]
    /\ callable = "none"
    /\ dispatches = 0
    /\ execCommits = <<>>
    /\ execPops = <<>>
    /\ errcode = ""

NextExec ==
    \/ JobExecuteEnter
    \/ DispatchReturns
    \/ DispatchCommits
    \/ DispatchFails
    \/ DispatchUnsupported
    \/ JobExecuteExit
    \/ CallerNext

(***************************************************************************)
(* Catalog: hypertables, chunks, job statistics                            *)
(***************************************************************************)
\* job ids
MaxJobs == 2
\* chunks of the hypertable the policies work on
MaxChunks == 4
\* time slices 0 .. MaxTime-1 of the open dimension; now is in 1 .. MaxTime
MaxTime == 4

JobIds == 1..MaxJobs

\* "not set" timestamp (job_api.c:215-217, 386)
DT_NOBEGIN == -1

\* job.c:374
INVALID_CHUNK_ID == 0

REORDER_SKIP_RECENT_DIM_SLICES_N == 3

Times == 0..MaxTime

NoStat == [exists |-> FALSE, last_start |-> DT_NOBEGIN, last_finish |-> DT_NOBEGIN,
           next_start |-> DT_NOBEGIN]

Stat(ls, lf, ns) == [exists |-> TRUE, last_start |-> ls, last_finish |-> lf,
                     next_start |-> ns]

\* a chunk of hypertable h whose slice on the open dimension is [s, s+1)
Chunk(h, s, c, d) == [hypertable_id |-> h, range_start |-> s, range_end |-> s + 1,
                      compressed |-> c, dropped |-> d]

\* config documents carry every field a policy reads
NULL_CONFIG == [isnull |-> TRUE, hypertable_id |-> 0, index_name |-> "", after |-> 0,
                start_offset |-> 0, end_offset |-> 0]

Doc(h, idx, a, so, eo) == [isnull |-> FALSE, hypertable_id |-> h, index_name |-> idx,
                           after |-> a, start_offset |-> so, end_offset |-> eo]

\* ---- job statistics (bgw/job_stat.h) -------------------------------------
ts_bgw_job_stat_find(stats, job_id) == stats[job_id]

ts_bgw_job_stat_set_next_start(stats, job_id, t) ==
    [stats EXCEPT ![job_id].next_start = t]

ts_bgw_job_stat_upsert_next_start(stats, job_id, t) ==
    IF stats[job_id].exists
    THEN [stats EXCEPT ![job_id].next_start = t]
    ELSE [stats EXCEPT ![job_id] = Stat(DT_NOBEGIN, DT_NOBEGIN, t)]

\* fast restart that writes the statistics of the neighbouring job
enable_fast_restart_wrong_job(stats, job_id, t) ==
    LET other == IF job_id = 1 THEN MaxJobs ELSE 1
        job_stat == ts_bgw_job_stat_find(stats, other)
    IN IF job_stat.exists
       THEN ts_bgw_job_stat_set_next_start(stats, other, job_stat.last_start)
       ELSE ts_bgw_job_stat_upsert_next_start(stats, other, t)

\* fast restart that also forgets when the job last finished
enable_fast_restart_clears_last_finish(stats, job_id, t) ==
    LET job_stat == ts_bgw_job_stat_find(stats, job_id)
    IN [stats EXCEPT ![job_id] = Stat(job_stat.last_start, DT_NOBEGIN,
                                      IF job_stat.exists THEN job_stat.last_start ELSE t)]

\* job.c:53-63
enable_fast_restart(stats, job_id, t) ==
    LET job_stat == ts_bgw_job_stat_find(stats, job_id)
    IN IF job_stat.exists
       THEN ts_bgw_job_stat_set_next_start(stats, job_id, job_stat.last_start)
       ELSE ts_bgw_job_stat_upsert_next_start(stats, job_id, t)

\* ---- dimension slices and chunks (dimension_slice.h, chunk.h) ------------
ChunkIds(chs) == 1..Len(chs)

\* the chunk that comes first in (range_start, chunk id) order
Oldest(chs, S) ==
    CHOOSE i \in S : \A k \in S :
        \/ chs[i].range_start < chs[k].range_start
        \/ chs[i].range_start = chs[k].range_start /\ i <= k

\* range_start of the slices of the hypertable's open dimension
SliceStarts(chs, ht) == {chs[i].range_start : i \in {k \in ChunkIds(chs) : chs[k].hypertable_id = ht}}

\* the n-th latest slice by range_start, -1 for NULL when there are fewer than n
ts_dimension_slice_nth_latest_slice(chs, ht, n) ==
    LET S == SliceStarts(chs, ht)
        nth == {s \in S : Cardinality({u \in S : u > s}) = n - 1}
    IN IF nth = {} THEN -1 ELSE CHOOSE s \in nth : TRUE

\* chunks of the hypertable a reorder job may still take: not compressed, not
\* dropped, never reordered by this job
ValidForReorder(chs, stats, job_id, ht) ==
    {i \in ChunkIds(chs) : /\ chs[i].hypertable_id = ht
                           /\ ~chs[i].compressed
                           /\ ~chs[i].dropped
                           /\ <<job_id, i>> \notin stats}

\* oldest valid chunk in a slice with range_start <= start_value, -1 when none
ts_dimension_slice_oldest_valid_chunk_for_reorder(chs, stats, job_id, ht, start_value) ==
    LET S == {i \in ValidForReorder(chs, stats, job_id, ht) :
                 chs[i].range_start <= start_value}
    IN IF S = {} THEN -1 ELSE Oldest(chs, S)

\* chunks whose slice ends before end_value and that are not yet compressed
CompressCandidates(chs, ht, end_value) ==
    {i \in ChunkIds(chs) : /\ chs[i].hypertable_id = ht
                           /\ chs[i].range_end < end_value
                           /\ ~chs[i].compressed}

ts_dimension_slice_get_chunkid_to_compress(chs, ht, end_value) ==
    LET S == CompressCandidates(chs, ht, end_value)
    IN IF S = {} THEN INVALID_CHUNK_ID ELSE Oldest(chs, S)

tsl_compress_chunk_wrapper(chs, chunkid) == [chs EXCEPT ![chunkid].compressed = TRUE]

ts_hypertable_get_by_id(hts, htid) == htid \in hts

\* ---- reorder policy ------------------------------------------------------
\* get_chunk_id_to_reorder comparing the start with BTLessStrategyNumber
get_chunk_id_to_reorder_less(chs, stats, job_id, ht) ==
    LET nth_dimension ==
            ts_dimension_slice_nth_latest_slice(chs, ht, REORDER_SKIP_RECENT_DIM_SLICES_N)
        S == {i \in ValidForReorder(chs, stats, job_id, ht) :
                 chs[i].range_start < nth_dimension}
    IN IF nth_dimension = -1 \/ S = {} THEN -1 ELSE Oldest(chs, S)

\* job.c:74-93
get_chunk_id_to_reorder(chs, stats, job_id, ht) ==
    LET nth_dimension ==
            ts_dimension_slice_nth_latest_slice(chs, ht, REORDER_SKIP_RECENT_DIM_SLICES_N)
    IN IF nth_dimension = -1
       THEN -1
       ELSE ts_dimension_slice_oldest_valid_chunk_for_reorder(chs, stats, job_id, ht,
                                                              nth_dimension)

\* ---- compression policy --------------------------------------------------
\* job.c:98-119, integer partitioning: now() - lag
get_window_boundary(t, lag) == t - lag

\* job.c:121-138
get_chunk_to_compress(chs, ht, config, t) ==
    ts_dimension_slice_get_chunkid_to_compress(chs, ht, get_window_boundary(t, config.after))

\* job.c:402-414
policy_compression_read_and_validate_config(hts, config) ==
    IF ts_hypertable_get_by_id(hts, config.hypertable_id)
    THEN [ok |-> TRUE, err |-> "", hypertable |-> config.hypertable_id]
    ELSE [ok |-> FALSE, err |-> "InvalidParameter", hypertable |-> 0]

\* a policy run that ended in an error changes nothing
PolicyError(err, chs, cstats, stats) ==
    [ok |-> FALSE, err |-> err, chunks |-> chs, chunkStats |-> cstats, jobStat |-> stats,
     chunkid |-> INVALID_CHUNK_ID, restart |-> FALSE]

\* the compression policy asking for a restart after every run that compressed
policy_compression_execute_always_restart(job_id, config, hts, chs, cstats, stats, t) ==
    LET ht == config.hypertable_id
        chunkid == get_chunk_to_compress(chs, ht, config, t)
        chs1 == IF chunkid # INVALID_CHUNK_ID
                THEN tsl_compress_chunk_wrapper(chs, chunkid) ELSE chs
        again == chunkid # INVALID_CHUNK_ID
    IN [ok |-> TRUE, err |-> "", chunks |-> chs1, chunkStats |-> cstats,
        jobStat |-> IF again THEN enable_fast_restart(stats, job_id, t) ELSE stats,
        chunkid |-> chunkid, restart |-> again]

\* the compression policy never asking for a restart
policy_compression_execute_no_restart(job_id, config, hts, chs, cstats, stats, t) ==
    LET ht == config.hypertable_id
        chunkid == get_chunk_to_compress(chs, ht, config, t)
        chs1 == IF chunkid # INVALID_CHUNK_ID
                THEN tsl_compress_chunk_wrapper(chs, chunkid) ELSE chs
    IN [ok |-> TRUE, err |-> "", chunks |-> chs1, chunkStats |-> cstats,
        jobStat |-> stats, chunkid |-> chunkid, restart |-> FALSE]

\* job.c:363-399
policy_compression_execute(job_id, config, hts, chs, cstats, stats, t) ==
    LET policy_data == policy_compression_read_and_validate_config(hts, config)
    IN IF ~policy_data.ok
       THEN PolicyError(policy_data.err, chs, cstats, stats)
       ELSE LET ht == policy_data.hypertable
                chunkid == get_chunk_to_compress(chs, ht, config, t)
                chs1 == IF chunkid # INVALID_CHUNK_ID
                        THEN tsl_compress_chunk_wrapper(chs, chunkid) ELSE chs
                again == get_chunk_to_compress(chs1, ht, config, t) # INVALID_CHUNK_ID
            IN [ok |-> TRUE, err |-> "", chunks |-> chs1, chunkStats |-> cstats,
                jobStat |-> IF again THEN enable_fast_restart(stats, job_id, t) ELSE stats,
                chunkid |-> chunkid, restart |-> again]

\* ---- reorder policy run -------------------------------------------------
\* the hypertable an index belongs to, 0 when there is no such index
IndexTable(index_name) ==
    CASE index_name = "idx1" -> 1
      [] index_name = "idx2" -> 2
      [] OTHER -> 0

\* job.c:140-165
check_valid_index(ht, index_name) ==
    IF IndexTable(index_name) = 0 THEN "InvalidParameter"
    ELSE IF IndexTable(index_name) # ht THEN "InvalidParameter"
    ELSE ""

\* job.c:210-230
policy_reorder_read_and_validate_config(hts, config) ==
    IF ~ts_hypertable_get_by_id(hts, config.hypertable_id)
    THEN [ok |-> FALSE, err |-> "InvalidParameter", hypertable |-> 0, index_relid |-> ""]
    ELSE IF check_valid_index(config.hypertable_id, config.index_name) # ""
    THEN [ok |-> FALSE, err |-> check_valid_index(config.hypertable_id, config.index_name),
          hypertable |-> 0, index_relid |-> ""]
    ELSE [ok |-> TRUE, err |-> "", hypertable |-> config.hypertable_id,
          index_relid |-> config.index_name]

\* the reorder run that does not record the chunk it reordered
policy_reorder_execute_unrecorded(job_id, config, hts, chs, cstats, stats, t) ==
    LET policy == policy_reorder_read_and_validate_config(hts, config)
    IN IF ~policy.ok
       THEN PolicyError(policy.err, chs, cstats, stats)
       ELSE LET chunk_id == get_chunk_id_to_reorder(chs, cstats, job_id, policy.hypertable)
            IN IF chunk_id = -1
               THEN [ok |-> TRUE, err |-> "", chunks |-> chs, chunkStats |-> cstats,
                     jobStat |-> stats, chunkid |-> -1, restart |-> FALSE]
               ELSE [ok |-> TRUE, err |-> "", chunks |-> chs, chunkStats |-> cstats,
                     jobStat |-> enable_fast_restart(stats, job_id, t),
                     chunkid |-> chunk_id, restart |-> TRUE]

\* the reorder run that asks for a restart when it found a chunk besides the one
\* it is about to record
policy_reorder_execute_restart_before_record(job_id, config, hts, chs, cstats, stats, t) ==
    LET policy == policy_reorder_read_and_validate_config(hts, config)
    IN IF ~policy.ok
       THEN PolicyError(policy.err, chs, cstats, stats)
       ELSE LET chunk_id == get_chunk_id_to_reorder(chs, cstats, job_id, policy.hypertable)
                cstats1 == cstats \cup {<<job_id, chunk_id>>}
                again == get_chunk_id_to_reorder(chs, cstats, job_id, policy.hypertable) # -1
            IN IF chunk_id = -1
               THEN [ok |-> TRUE, err |-> "", chunks |-> chs, chunkStats |-> cstats,
                     jobStat |-> stats, chunkid |-> -1, restart |-> FALSE]
               ELSE [ok |-> TRUE, err |-> "", chunks |-> chs, chunkStats |-> cstats1,
                     jobStat |-> IF again THEN enable_fast_restart(stats, job_id, t)
                                          ELSE stats,
                     chunkid |-> chunk_id, restart |-> again]

\* the reorder run that goes on when no chunk was found
policy_reorder_execute_no_early_return(job_id, config, hts, chs, cstats, stats, t) ==
    LET policy == policy_reorder_read_and_validate_config(hts, config)
    IN IF ~policy.ok
       THEN PolicyError(policy.err, chs, cstats, stats)
       ELSE LET chunk_id == get_chunk_id_to_reorder(chs, cstats, job_id, policy.hypertable)
                cstats1 == cstats \cup {<<job_id, chunk_id>>}
            IN [ok |-> TRUE, err |-> "", chunks |-> chs, chunkStats |-> cstats1,
                jobStat |-> stats, chunkid |-> chunk_id, restart |-> FALSE]

\* job.c:167-208
policy_reorder_execute(job_id, config, hts, chs, cstats, stats, t) ==
    LET policy == policy_reorder_read_and_validate_config(hts, config)
    IN IF ~policy.ok
       THEN PolicyError(policy.err, chs, cstats, stats)
       ELSE LET chunk_id == get_chunk_id_to_reorder(chs, cstats, job_id, policy.hypertable)
                cstats1 == cstats \cup {<<job_id, chunk_id>>}
                again == get_chunk_id_to_reorder(chs, cstats1, job_id, policy.hypertable) # -1
            IN IF chunk_id = -1
               THEN [ok |-> TRUE, err |-> "", chunks |-> chs, chunkStats |-> cstats,
                     jobStat |-> stats, chunkid |-> -1, restart |-> FALSE]
               ELSE [ok |-> TRUE, err |-> "", chunks |-> chs, chunkStats |-> cstats1,
                     jobStat |-> IF again THEN enable_fast_restart(stats, job_id, t)
                                          ELSE stats,
                     chunkid |-> chunk_id, restart |-> again]

(***************************************************************************)
(* Jobs                                                                    *)
(***************************************************************************)
INTERNAL_SCHEMA_NAME == "_timescaledb_internal"

NoJob == [exists |-> FALSE, proc_schema |-> "", proc_name |-> "", schedule_interval |-> 0,
          max_runtime |-> 0, max_retries |-> 0, retry_period |-> 0, scheduled |-> FALSE,
          owner |-> "", config |-> NULL_CONFIG]

\* the row that is scheduled whatever flag was given
JobAlwaysScheduled(schema, name, interval, runtime, retries, period, sched, owner, config) ==
    [exists |-> TRUE, proc_schema |-> schema, proc_name |-> name,
     schedule_interval |-> interval, max_runtime |-> runtime, max_retries |-> retries,
     retry_period |-> period, scheduled |-> TRUE, owner |-> owner, config |-> config]

Job(schema, name, interval, runtime, retries, period, sched, owner, config) ==
    [exists |-> TRUE, proc_schema |-> schema, proc_name |-> name,
     schedule_interval |-> interval, max_runtime |-> runtime, max_retries |-> retries,
     retry_period |-> period, scheduled |-> sched, owner |-> owner, config |-> config]

NoRun == [op |-> "none", job |-> 0, ok |-> TRUE, err |-> "", chunkid |-> 0,
          restart |-> FALSE, eligible |-> {}, pre_stat |-> [j \in JobIds |-> NoStat],
          pre_chunks |-> <<>>, pre_cstats |-> {}]

NoCall == [op |-> "none", job |-> 0, ok |-> TRUE, err |-> "", config_check |-> "none",
           config |-> NULL_CONFIG, writes |-> <<>>]

\* ---- backends -------------------------------------------------------------
\* the client backends that call alter_job
Sessions == {1, 2}

NoArgs == [schedule_interval |-> <<>>, max_runtime |-> <<>>, max_retries |-> <<>>,
           retry_period |-> <<>>, scheduled |-> <<>>, config |-> <<>>,
           next_start |-> <<>>]

\* a backend that is in no call: job is the BgwJob of job_alter, new_tuple the row
\* version it has written and not yet committed
NoSession == [pc |-> "idle", args |-> NoArgs, job |-> NoJob, new_tuple |-> NoJob]

NoWorker == [pc |-> "idle", job |-> 0, job_stat |-> NoStat, restart |-> FALSE]

InitBackendsIdle ==
    /\ sessions = [p \in Sessions |-> NoSession]
    /\ worker = NoWorker
    /\ tuplock = 0

(***************************************************************************)
(* add_job, alter_job, delete_job (job_api.c)                              *)
(***************************************************************************)
\* job_api.c:20
DEFAULT_MAX_RUNTIME == 0
\* job_api.c:23
DEFAULT_MAX_RETRIES == -1
\* job_api.c:25, in minutes
DEFAULT_RETRY_PERIOD == 5

\* an SQL argument: <<>> is NULL, <<v>> carries the value v
PG_ARGISNULL(arg) == arg = <<>>

PG_GETARG(arg) == arg[1]

\* ---- config validation ---------------------------------------------------
\* ---- relations and continuous aggregates ---------------------------------
NoRelation == [kind |-> "none", id |-> 0]

\* the main table of a hypertable
ts_hypertable_id_to_relid(htid) == [kind |-> "table", id |-> htid]

\* hypertable 2 is the materialization hypertable of a continuous aggregate
MaterializationHypertables == {2}

\* the user view of the continuous aggregate materialized in a hypertable,
\* NoRelation (NULL) when the hypertable backs none
ts_continuous_agg_find_by_mat_hypertable_id(htid) ==
    IF htid \in MaterializationHypertables
    THEN [kind |-> "view", id |-> htid]
    ELSE NoRelation

\* the validator that leaves the drop on the hypertable it was given
policy_retention_read_and_validate_config_no_lookup(hts, config, t) ==
    IF ~ts_hypertable_get_by_id(hts, config.hypertable_id)
    THEN [ok |-> FALSE, err |-> "InvalidParameter", object_relid |-> NoRelation,
          boundary |-> 0]
    ELSE [ok |-> TRUE, err |-> "",
          object_relid |-> ts_hypertable_id_to_relid(config.hypertable_id),
          boundary |-> get_window_boundary(t, config.after)]

\* job.c:270-310
policy_retention_read_and_validate_config(hts, config, t) ==
    IF ~ts_hypertable_get_by_id(hts, config.hypertable_id)
    THEN [ok |-> FALSE, err |-> "InvalidParameter", object_relid |-> NoRelation,
          boundary |-> 0]
    ELSE LET cagg == ts_continuous_agg_find_by_mat_hypertable_id(config.hypertable_id)
         IN [ok |-> TRUE, err |-> "",
             \* 291-300: the reverse lookup of the continuous aggregate
             object_relid |-> IF cagg # NoRelation THEN cagg
                              ELSE ts_hypertable_id_to_relid(config.hypertable_id),
             boundary |-> get_window_boundary(t, config.after)]

\* the text of a point in time
ts_internal_to_time_string(t) == ToString(t)

\* job.c:232-254: get_open_dimension_for_hypertable reads ht->fd.id and ht->space of
\* the hypertable it is handed. Handed NULL its behaviour is undefined: the backend
\* is killed by the signal, or goes on with what it read into the elog(ERROR) at
\* 246-251, into the window error of its caller, or through to the end
NullDereference == {"crash", "Internal", "InvalidParameter", ""}

\* the outcomes a validator can end in, given the error the model computed for it
Outcomes(err) == IF err = "undefined" THEN NullDereference ELSE {err}

\* job.c:329-361; the lookup at 339 may return NULL and what it returned goes to
\* get_open_dimension_for_hypertable at 340 unchecked: the error is "undefined" then
policy_refresh_cagg_read_and_validate_config(hts, config, t) ==
    LET mat_ht == ts_hypertable_get_by_id(hts, config.hypertable_id)
        refresh_start == t - config.start_offset
        refresh_end == t - config.end_offset
    IN IF ~mat_ht
       THEN [ok |-> FALSE, err |-> "undefined", start |-> 0, end |-> 0,
             detail |-> <<>>, cagg |-> NoRelation]
       ELSE IF refresh_start >= refresh_end
       \* 345-352: errdetail prints the start and the end of the window
       THEN [ok |-> FALSE, err |-> "InvalidParameter", start |-> refresh_start,
             end |-> refresh_end,
             detail |-> <<ts_internal_to_time_string(refresh_start),
                          ts_internal_to_time_string(refresh_end)>>,
             cagg |-> NoRelation]
       ELSE [ok |-> TRUE, err |-> "", start |-> refresh_start, end |-> refresh_end,
             detail |-> <<>>,
             cagg |-> ts_continuous_agg_find_by_mat_hypertable_id(config.hypertable_id)]

PolicyProcs == {"policy_retention", "policy_reorder", "policy_compression",
                "policy_refresh_continuous_aggregate"}

\* the dispatch that sends every procedure to the reorder validator
job_config_validator_any_proc(proc_schema, proc_name) == "policy_reorder"

\* job_api.c:35-49: the validator job_config_check hands the config to, "" when
\* the procedure is none of the built-in policies
job_config_validator(proc_schema, proc_name) ==
    IF proc_schema = INTERNAL_SCHEMA_NAME /\ proc_name \in PolicyProcs
    THEN proc_name
    ELSE ""

\* ---- retention and refresh policy runs -----------------------------------
\* drop_chunks on a relation: the chunks of the hypertable behind it that end at or
\* before the boundary are dropped
chunk_invoke_drop_chunks(chs, relid, boundary) ==
    [i \in ChunkIds(chs) |->
        IF chs[i].hypertable_id = relid.id /\ chs[i].range_end <= boundary
        THEN [chs[i] EXCEPT !.dropped = TRUE]
        ELSE chs[i]]

\* the retention run that drops whatever its config names
policy_retention_execute_unvalidated(job_id, config, hts, chs, cstats, stats, t) ==
    LET object_relid == ts_hypertable_id_to_relid(config.hypertable_id)
        boundary == get_window_boundary(t, config.after)
    IN [ok |-> TRUE, err |-> "",
        chunks |-> chunk_invoke_drop_chunks(chs, object_relid, boundary),
        chunkStats |-> cstats, jobStat |-> stats, chunkid |-> INVALID_CHUNK_ID,
        restart |-> FALSE,
        action |-> <<[kind |-> "drop_chunks", relid |-> object_relid,
                      boundary |-> boundary]>>]

\* job.c:256-268
policy_retention_execute(job_id, config, hts, chs, cstats, stats, t) ==
    LET policy_data == policy_retention_read_and_validate_config(hts, config, t)
    IN IF ~policy_data.ok
       THEN PolicyError(policy_data.err, chs, cstats, stats) @@ [action |-> <<>>]
       ELSE [ok |-> TRUE, err |-> "",
             chunks |-> chunk_invoke_drop_chunks(chs, policy_data.object_relid,
                                                 policy_data.boundary),
             chunkStats |-> cstats, jobStat |-> stats, chunkid |-> INVALID_CHUNK_ID,
             restart |-> FALSE,
             action |-> <<[kind |-> "drop_chunks", relid |-> policy_data.object_relid,
                           boundary |-> policy_data.boundary]>>]

\* the refresh run that refreshes whatever the validator said
policy_refresh_cagg_execute_unvalidated(job_id, config, hts, chs, cstats, stats, t) ==
    LET policy_data == policy_refresh_cagg_read_and_validate_config(hts, config, t)
    IN [ok |-> TRUE, err |-> "", chunks |-> chs, chunkStats |-> cstats,
        jobStat |-> stats, chunkid |-> INVALID_CHUNK_ID, restart |-> FALSE,
        action |-> <<[kind |-> "refresh", cagg |-> policy_data.cagg,
                      start |-> policy_data.start, end |-> policy_data.end]>>,
        detail |-> <<>>]

\* job.c:312-327
policy_refresh_cagg_execute(job_id, config, hts, chs, cstats, stats, t) ==
    LET policy_data == policy_refresh_cagg_read_and_validate_config(hts, config, t)
    IN IF ~policy_data.ok
       THEN PolicyError(policy_data.err, chs, cstats, stats)
               @@ [action |-> <<>>, detail |-> policy_data.detail]
       ELSE [ok |-> TRUE, err |-> "", chunks |-> chs, chunkStats |-> cstats,
             jobStat |-> stats, chunkid |-> INVALID_CHUNK_ID, restart |-> FALSE,
             action |-> <<[kind |-> "refresh", cagg |-> policy_data.cagg,
                           start |-> policy_data.start, end |-> policy_data.end]>>,
             detail |-> <<>>]

\* job_api.c:32-50; the error the check ends in, "" when it passes
job_config_check(proc_schema, proc_name, config, hts, t) ==
    LET validator == job_config_validator(proc_schema, proc_name)
    IN CASE validator = "policy_retention" ->
               policy_retention_read_and_validate_config(hts, config, t).err
         [] validator = "policy_reorder" ->
               policy_reorder_read_and_validate_config(hts, config).err
         [] validator = "policy_compression" ->
               policy_compression_read_and_validate_config(hts, config).err
         [] validator = "policy_refresh_continuous_aggregate" ->
               policy_refresh_cagg_read_and_validate_config(hts, config, t).err
         [] OTHER -> ""

\* ---- pg_proc, pg_namespace, pg_authid ------------------------------------

UserProcs == {"custom_proc", "private_proc"}

\* "" is NULL: no function or procedure has this oid
get_func_name(proc) == IF proc \in PolicyProcs \cup UserProcs THEN proc ELSE ""

get_func_namespace(proc) == IF proc \in PolicyProcs THEN INTERNAL_SCHEMA_NAME ELSE "public"

\* EXECUTE on private_proc is granted to nobody
pg_proc_aclcheck(proc, role) == proc # "private_proc"

\* the owner of a job must be a role that can log in
ts_bgw_job_validate_job_owner(owner) == owner # "nologin"

has_privs_of_role(member, role) == member = role

\* ---- results of a call ---------------------------------------------------
\* the call returns: the catalog holds what the call wrote; ret is the datum handed
\* back to SQL, <<>> for NULL; validator is the policy validator that read the config
ApiReturn(job_id, js, stats, seq, check, config, writes) ==
    [ok |-> TRUE, err |-> "", job |-> job_id, jobs |-> js, jobStat |-> stats,
     jobSeq |-> seq, config_check |-> check, config |-> config, writes |-> writes,
     ret |-> <<>>, validator |-> ""]

\* ereport(ERROR): the statement is aborted and the writes it has issued are undone,
\* the catalog is what it was before the call
ApiError(err, job_id, js, stats, seq, check, config, writes) ==
    [ok |-> FALSE, err |-> err, job |-> job_id, jobs |-> js, jobStat |-> stats,
     jobSeq |-> seq, config_check |-> check, config |-> config, writes |-> writes,
     ret |-> <<>>, validator |-> ""]

\* ---- add_job -------------------------------------------------------------
ts_bgw_job_insert_relation(js, job_id, row) == [js EXCEPT ![job_id] = row]

\* job_api.c:61-137
job_add(js, stats, seq, hts, t, caller, proc, schedule_interval, config, initial_start, scheduled) ==
    LET owner == caller
        func_name == IF PG_ARGISNULL(proc) THEN "" ELSE get_func_name(PG_GETARG(proc))
        cfg == IF PG_ARGISNULL(config) THEN NULL_CONFIG ELSE PG_GETARG(config)
        sched == IF PG_ARGISNULL(scheduled) THEN TRUE ELSE PG_GETARG(scheduled)
        Fail(err) == ApiError(err, 0, js, stats, seq, "none", cfg, <<>>)
    IN IF PG_ARGISNULL(proc) THEN Fail("InvalidParameter")
       ELSE IF PG_ARGISNULL(schedule_interval) THEN Fail("InvalidParameter")
       ELSE IF func_name = "" THEN Fail("UndefinedObject")
       ELSE IF ~pg_proc_aclcheck(PG_GETARG(proc), owner) THEN Fail("InsufficientPrivilege")
       ELSE IF ~ts_bgw_job_validate_job_owner(owner) THEN Fail("InsufficientPrivilege")
       ELSE
         LET proc_schema == get_func_namespace(PG_GETARG(proc))
             err == IF cfg.isnull THEN ""
                    ELSE job_config_check(proc_schema, func_name, cfg, hts, t)
             check == IF cfg.isnull THEN "none" ELSE IF err = "" THEN "passed" ELSE "failed"
             validator == IF cfg.isnull THEN ""
                          ELSE job_config_validator(proc_schema, func_name)
             job_id == seq + 1
             js1 == ts_bgw_job_insert_relation(js, job_id,
                        Job(proc_schema, func_name, PG_GETARG(schedule_interval),
                            DEFAULT_MAX_RUNTIME, DEFAULT_MAX_RETRIES, DEFAULT_RETRY_PERIOD,
                            sched, owner, cfg))
         IN IF err # ""
            THEN [ApiError(err, 0, js, stats, seq, check, cfg, <<>>)
                     EXCEPT !.validator = validator]
            ELSE IF PG_ARGISNULL(initial_start)
            THEN [ApiReturn(job_id, js1, stats, job_id, check, cfg, <<"bgw_job">>)
                     EXCEPT !.ret = <<job_id>>, !.validator = validator]
            ELSE [ApiReturn(job_id, js1,
                            ts_bgw_job_stat_upsert_next_start(stats, job_id,
                                                              PG_GETARG(initial_start)),
                            job_id, check, cfg, <<"bgw_job", "bgw_job_stat">>)
                     EXCEPT !.ret = <<job_id>>, !.validator = validator]

\* ---- alter_job -----------------------------------------------------------
\* the addition that drops the interval
timestamptz_pl_interval_ignores_span(ts, span) == ts

\* the addition that treats -infinity as a number
timestamptz_pl_interval_finite(ts, span) == ts + span

\* an infinite timestamp stays infinite when an interval is added to it
timestamptz_pl_interval(ts, span) == IF ts = DT_NOBEGIN THEN DT_NOBEGIN ELSE ts + span

\* allow_unset lets DT_NOBEGIN through as the new next_start (job_api.c:215-218)
ts_bgw_job_stat_update_next_start(stats, job_id, next_start, allow_unset) ==
    IF stats[job_id].exists /\ (allow_unset \/ next_start # DT_NOBEGIN)
    THEN [stats EXCEPT ![job_id].next_start = next_start]
    ELSE stats

ts_bgw_job_find(js, job_id) == job_id \in DOMAIN js /\ js[job_id].exists

\* PG_GETARG_INT32 of a NULL argument reads 0
PG_GETARG_INT32(arg) == IF PG_ARGISNULL(arg) THEN 0 ELSE PG_GETARG(arg)

\* job_api.c:139-157; the error find_job ends in, "" when it returns (the job or NULL)
find_job(js, job_id, missing_ok) ==
    IF PG_ARGISNULL(job_id) /\ ~missing_ok THEN "InvalidParameter"
    ELSE IF ~ts_bgw_job_find(js, PG_GETARG_INT32(job_id)) /\ ~missing_ok
    THEN "UndefinedObject"
    ELSE ""

ts_bgw_job_permission_check(job, caller) == has_privs_of_role(caller, job.owner)

\* the row update that writes the row without checking its config
bgw_job_tuple_update_by_id_unchecked(js, stats, seq, hts, t, job_id, updated_job) ==
    LET tuple == js[job_id]
        stat == ts_bgw_job_stat_find(stats, job_id)
        touch_stat == tuple.schedule_interval # updated_job.schedule_interval /\ stat.exists
        next_start == timestamptz_pl_interval(stat.last_finish,
                                              updated_job.schedule_interval)
        new_tuple == [tuple EXCEPT !.schedule_interval = updated_job.schedule_interval,
                                   !.max_runtime = updated_job.max_runtime,
                                   !.max_retries = updated_job.max_retries,
                                   !.retry_period = updated_job.retry_period,
                                   !.scheduled = updated_job.scheduled,
                                   !.config = updated_job.config]
    IN ApiReturn(job_id, [js EXCEPT ![job_id] = new_tuple],
                 IF touch_stat
                 THEN ts_bgw_job_stat_update_next_start(stats, job_id, next_start, TRUE)
                 ELSE stats,
                 seq, "none", updated_job.config,
                 (IF touch_stat THEN <<"bgw_job_stat">> ELSE <<>>) \o <<"bgw_job">>)

\* the row update that moves next_start whether or not the interval changed
bgw_job_tuple_update_by_id_always_recompute(js, stats, seq, hts, t, job_id, updated_job) ==
    LET tuple == js[job_id]
        stat == ts_bgw_job_stat_find(stats, job_id)
        touch_stat == stat.exists
        next_start == timestamptz_pl_interval(stat.last_finish,
                                              updated_job.schedule_interval)
        stats1 == IF touch_stat
                  THEN ts_bgw_job_stat_update_next_start(stats, job_id, next_start, TRUE)
                  ELSE stats
        writes1 == IF touch_stat THEN <<"bgw_job_stat">> ELSE <<>>
        err == IF updated_job.config.isnull THEN ""
               ELSE job_config_check(updated_job.proc_schema, updated_job.proc_name,
                                     updated_job.config, hts, t)
        check == IF updated_job.config.isnull THEN "none"
                 ELSE IF err = "" THEN "passed" ELSE "failed"
        new_tuple == [tuple EXCEPT !.schedule_interval = updated_job.schedule_interval,
                                   !.max_runtime = updated_job.max_runtime,
                                   !.max_retries = updated_job.max_retries,
                                   !.retry_period = updated_job.retry_period,
                                   !.scheduled = updated_job.scheduled,
                                   !.config = updated_job.config]
    IN IF err # ""
       THEN ApiError(err, job_id, js, stats, seq, check, updated_job.config, writes1)
       ELSE ApiReturn(job_id, [js EXCEPT ![job_id] = new_tuple], stats1, seq, check,
                      updated_job.config, writes1 \o <<"bgw_job">>)

\* job_api.c:186-262
bgw_job_tuple_update_by_id(js, stats, seq, hts, t, job_id, updated_job) ==
    LET tuple == js[job_id]
        stat == ts_bgw_job_stat_find(stats, job_id)
        \* 203-223: the interval changed, next_start follows it
        touch_stat == tuple.schedule_interval # updated_job.schedule_interval /\ stat.exists
        next_start == timestamptz_pl_interval(stat.last_finish,
                                              updated_job.schedule_interval)
        stats1 == IF touch_stat
                  THEN ts_bgw_job_stat_update_next_start(stats, job_id, next_start, TRUE)
                  ELSE stats
        writes1 == IF touch_stat THEN <<"bgw_job_stat">> ELSE <<>>
        \* 241-251
        err == IF updated_job.config.isnull THEN ""
               ELSE job_config_check(updated_job.proc_schema, updated_job.proc_name,
                                     updated_job.config, hts, t)
        check == IF updated_job.config.isnull THEN "none"
                 ELSE IF err = "" THEN "passed" ELSE "failed"
        \* 253-255
        new_tuple == [tuple EXCEPT !.schedule_interval = updated_job.schedule_interval,
                                   !.max_runtime = updated_job.max_runtime,
                                   !.max_retries = updated_job.max_retries,
                                   !.retry_period = updated_job.retry_period,
                                   !.scheduled = updated_job.scheduled,
                                   !.config = updated_job.config]
    IN IF err # ""
       THEN ApiError(err, job_id, js, stats, seq, check, updated_job.config, writes1)
       ELSE ApiReturn(job_id, [js EXCEPT ![job_id] = new_tuple], stats1, seq, check,
                      updated_job.config, writes1 \o <<"bgw_job">>)

\* job_api.c:269-297: the scan finds the one row with this id
ts_bgw_job_update_by_id(js, stats, seq, hts, t, job_id, job) ==
    bgw_job_tuple_update_by_id(js, stats, seq, hts, t, job_id, job)

\* the alter_job that stores the explicit next_start before it updates the row
job_alter_upsert_first(js, stats, seq, hts, t, caller, job_id, args, if_exists) ==
    LET id == PG_GETARG_INT32(job_id)
        err == find_job(js, job_id, if_exists)
    IN IF err # "" THEN ApiError(err, id, js, stats, seq, "none", NULL_CONFIG, <<>>)
       ELSE IF ~ts_bgw_job_find(js, id)
       THEN ApiReturn(id, js, stats, seq, "none", NULL_CONFIG, <<>>)
       ELSE IF ~ts_bgw_job_permission_check(js[id], caller)
       THEN ApiError("InsufficientPrivilege", id, js, stats, seq, "none", NULL_CONFIG, <<>>)
       ELSE
         LET Arg(a, old) == IF PG_ARGISNULL(a) THEN old ELSE PG_GETARG(a)
             job == [js[id] EXCEPT
                        !.schedule_interval = Arg(args.schedule_interval, @),
                        !.max_runtime = Arg(args.max_runtime, @),
                        !.max_retries = Arg(args.max_retries, @),
                        !.retry_period = Arg(args.retry_period, @),
                        !.scheduled = Arg(args.scheduled, @),
                        !.config = Arg(args.config, @)]
             stats0 == IF PG_ARGISNULL(args.next_start) THEN stats
                       ELSE ts_bgw_job_stat_upsert_next_start(stats, id,
                                                              PG_GETARG(args.next_start))
             upd == ts_bgw_job_update_by_id(js, stats0, seq, hts, t, id, job)
             done == IF upd.ok THEN upd ELSE [upd EXCEPT !.jobStat = stats]
             stat == ts_bgw_job_stat_find(done.jobStat, id)
             next_start == IF stat.exists THEN stat.next_start ELSE DT_NOBEGIN
         IN IF ~done.ok THEN done
            ELSE [done EXCEPT
                     !.ret = <<[job_id |-> id,
                                schedule_interval |-> job.schedule_interval,
                                max_runtime |-> job.max_runtime,
                                max_retries |-> job.max_retries,
                                retry_period |-> job.retry_period,
                                scheduled |-> job.scheduled,
                                config |-> job.config,
                                next_start |-> next_start]>>]

\* job_api.c:335-405
job_alter(js, stats, seq, hts, t, caller, job_id, args, if_exists) ==
    LET id == PG_GETARG_INT32(job_id)
        err == find_job(js, job_id, if_exists)
    IN IF err # "" THEN ApiError(err, id, js, stats, seq, "none", NULL_CONFIG, <<>>)
       ELSE IF ~ts_bgw_job_find(js, id)
       THEN ApiReturn(id, js, stats, seq, "none", NULL_CONFIG, <<>>)
       ELSE IF ~ts_bgw_job_permission_check(js[id], caller)
       THEN ApiError("InsufficientPrivilege", id, js, stats, seq, "none", NULL_CONFIG, <<>>)
       ELSE
         LET Arg(a, old) == IF PG_ARGISNULL(a) THEN old ELSE PG_GETARG(a)
             job == [js[id] EXCEPT
                        !.schedule_interval = Arg(args.schedule_interval, @),
                        !.max_runtime = Arg(args.max_runtime, @),
                        !.max_retries = Arg(args.max_retries, @),
                        !.retry_period = Arg(args.retry_period, @),
                        !.scheduled = Arg(args.scheduled, @),
                        !.config = Arg(args.config, @)]
             upd == ts_bgw_job_update_by_id(js, stats, seq, hts, t, id, job)
             \* 379-380
             done == IF ~upd.ok \/ PG_ARGISNULL(args.next_start)
                     THEN upd
                     ELSE [upd EXCEPT
                              !.jobStat = ts_bgw_job_stat_upsert_next_start(
                                              @, id, PG_GETARG(args.next_start)),
                              !.writes = Append(@, "bgw_job_stat")]
             \* 382-401: the row handed back holds the fields of the local job and
             \* the next_start found in bgw_job_stat, DT_NOBEGIN when there is none
             stat == ts_bgw_job_stat_find(done.jobStat, id)
             next_start == IF stat.exists THEN stat.next_start ELSE DT_NOBEGIN
         IN IF ~done.ok THEN done
            ELSE [done EXCEPT
                     !.ret = <<[job_id |-> id,
                                schedule_interval |-> job.schedule_interval,
                                max_runtime |-> job.max_runtime,
                                max_retries |-> job.max_retries,
                                retry_period |-> job.retry_period,
                                scheduled |-> job.scheduled,
                                config |-> job.config,
                                next_start |-> next_start]>>]

\* ---- delete_job ----------------------------------------------------------
\* the job row goes, and its statistics with it
ts_bgw_job_delete_by_id(js, job_id) == [js EXCEPT ![job_id] = NoJob]

\* the delete_job that asks nobody's permission
job_delete_any_caller(js, stats, seq, caller, job_id) ==
    LET id == PG_GETARG_INT32(job_id)
        err == find_job(js, job_id, FALSE)
    IN IF err # "" THEN ApiError(err, id, js, stats, seq, "none", NULL_CONFIG, <<>>)
       ELSE ApiReturn(id, ts_bgw_job_delete_by_id(js, id), [stats EXCEPT ![id] = NoStat],
                      seq, "none", NULL_CONFIG, <<"bgw_job">>)

\* job_api.c:162-183
job_delete(js, stats, seq, caller, job_id) ==
    LET id == PG_GETARG_INT32(job_id)
        err == find_job(js, job_id, FALSE)
    IN IF err # "" THEN ApiError(err, id, js, stats, seq, "none", NULL_CONFIG, <<>>)
       ELSE IF ~has_privs_of_role(caller, js[id].owner)
       THEN ApiError("InsufficientPrivilege", id, js, stats, seq, "none", NULL_CONFIG, <<>>)
       ELSE ApiReturn(id, ts_bgw_job_delete_by_id(js, id), [stats EXCEPT ![id] = NoStat],
                      seq, "none", NULL_CONFIG, <<"bgw_job">>)

\* ---- run_job -------------------------------------------------------------
\* job_api.c:303-311, for a job whose procedure writes no catalog table
job_run(js, stats, seq, job_id) ==
    LET id == PG_GETARG_INT32(job_id)
        err == find_job(js, job_id, FALSE)
    IN IF err # "" THEN ApiError(err, id, js, stats, seq, "none", NULL_CONFIG, <<>>)
       ELSE ApiReturn(id, js, stats, seq, "none", NULL_CONFIG, <<>>)

(***************************************************************************)
(* Policy runs on a hypertable with a fixed set of chunks                  *)
(***************************************************************************)
\* chunks of the compression specification
MaxCompressChunks == 3

ChunkRows(kinds) == {Chunk(1, s, k = "compressed", k = "dropped") :
                        s \in 0..(MaxTime - 1), k \in kinds}

\* chunk ids are handed out as the slices are created
ChunkSeqs(n, kinds) ==
    {chs \in UNION {[1..k -> ChunkRows(kinds)] : k \in 0..n} :
        \A i \in 1..(Len(chs) - 1) : chs[i].range_start <= chs[i + 1].range_start}

StatInits == {NoStat, Stat(1, 1, 2), Stat(DT_NOBEGIN, DT_NOBEGIN, 2)}

PolicyJob(name, config) ==
    Job(INTERNAL_SCHEMA_NAME, name, 1, 0, -1, 1, TRUE, "owner", config)

PolicyRun(op, j, r, elig) ==
    /\ chunks' = r.chunks
    /\ chunkStats' = r.chunkStats
    /\ jobStat' = r.jobStat
    /\ run' = [op |-> op, job |-> j, ok |-> r.ok, err |-> r.err, chunkid |-> r.chunkid,
               restart |-> r.restart, eligible |-> elig, pre_stat |-> jobStat,
               pre_chunks |-> chunks, pre_cstats |-> chunkStats]
    /\ UNCHANGED <<sessions, worker, tuplock>>
    /\ UNCHANGED <<now, hypertables, jobs, jobSeq, call>>

CompressionRun(j) ==
    \E r \in {policy_compression_execute(j, jobs[j].config, hypertables, chunks,
                                         chunkStats, jobStat, now)} :
       PolicyRun("policy_compression", j, r,
                 CompressCandidates(chunks, jobs[j].config.hypertable_id,
                                    get_window_boundary(now, jobs[j].config.after)))

ReorderRun(j) ==
    \E r \in {policy_reorder_execute(j, jobs[j].config, hypertables, chunks,
                                     chunkStats, jobStat, now)} :
       PolicyRun("policy_reorder", j, r, {})

\* the scheduler starts the job again at once: fast restart put next_start back
FastRestartCompression ==
    /\ run.restart
    /\ CompressionRun(1)
    /\ UNCHANGED execVars

\* the first run of the job
FirstCompression ==
    /\ run.op = "none"
    /\ CompressionRun(1)
    /\ UNCHANGED execVars

\* the schedule interval has passed, or run_job is called
PeriodicCompression ==
    /\ run.op # "none"
    /\ ~run.restart
    /\ CompressionRun(1)
    /\ UNCHANGED execVars

FastRestartReorder ==
    /\ run.restart
    /\ ReorderRun(1)
    /\ UNCHANGED execVars

PeriodicReorder ==
    /\ ~run.restart
    /\ ReorderRun(1)
    /\ UNCHANGED execVars

\* the first run of the reorder job
FirstReorder ==
    /\ run.op = "none"
    /\ ReorderRun(1)
    /\ UNCHANGED execVars

InitPolicy(name, n, kinds) ==
    /\ now = MaxTime
    /\ hypertables = {1, 2}
    /\ chunks \in ChunkSeqs(n, kinds)
    /\ chunkStats = {}
    /\ \E a \in 0..2 :
          jobs = [j \in JobIds |->
                    IF j = 1 THEN PolicyJob(name, Doc(1, "idx1", a, 3, 1))
                    ELSE Job("public", "custom_proc", 1, 0, -1, 1, TRUE, "owner",
                             NULL_CONFIG)]
    /\ jobSeq = MaxJobs
    /\ \E st \in StatInits :
          jobStat = [j \in JobIds |-> IF j = 1 THEN st ELSE Stat(0, 0, 1)]
    /\ run = NoRun
    /\ call = NoCall
    /\ InitBackendsIdle

InitCatalogIdle ==
    /\ now = MaxTime
    /\ hypertables = {1, 2}
    /\ chunks = <<>>
    /\ chunkStats = {}
    /\ jobs = [j \in JobIds |-> NoJob]
    /\ jobSeq = 0
    /\ jobStat = [j \in JobIds |-> NoStat]
    /\ run = NoRun
    /\ call = NoCall
    /\ InitBackendsIdle

(***************************************************************************)
(* Calls of add_job, alter_job and delete_job                              *)
(***************************************************************************)
Roles == {"alice", "bob", "nologin"}

\* a config every policy accepts, and one naming a hypertable that does not exist
AdminDocs == {Doc(1, "idx1", 1, 3, 1), Doc(3, "idx1", 1, 3, 1)}

OptionalDocs == {<<>>} \cup {<<d>> : d \in AdminDocs}

AddProcs == {<<>>, <<"no_such_proc">>, <<"private_proc">>, <<"custom_proc">>,
             <<"policy_reorder">>}

AlterArgs == [schedule_interval : {<<>>, <<2>>}, max_runtime : {<<>>, <<1>>},
              max_retries : {<<>>, <<1>>}, retry_period : {<<>>, <<1>>},
              scheduled : {<<>>, <<FALSE>>}, config : OptionalDocs,
              next_start : {<<>>, <<2>>}]

LiveJobs == {j \in JobIds : jobs[j].exists}

\* the catalog after the statement, and what the statement did
ApiCall(op, r) ==
    /\ jobs' = r.jobs
    /\ jobStat' = r.jobStat
    /\ jobSeq' = r.jobSeq
    /\ call' = [op |-> op, job |-> r.job, ok |-> r.ok, err |-> r.err,
                config_check |-> r.config_check, config |-> r.config,
                writes |-> r.writes]
    /\ UNCHANGED <<sessions, worker, tuplock>>
    /\ UNCHANGED <<now, hypertables, chunks, chunkStats, run>>
    /\ UNCHANGED execVars

\* add_job, called by alice or by a role that cannot log in while the catalog is
\* still empty
AddJob ==
    /\ jobSeq = 0
    /\ \E caller \in Roles \ {"bob"}, proc \in AddProcs, schedule_interval \in {<<>>, <<1>>},
          config \in OptionalDocs, initial_start \in {<<>>, <<2>>},
          scheduled \in {<<>>, <<FALSE>>} :
          \E r \in {job_add(jobs, jobStat, jobSeq, hypertables, now, caller, proc,
                            schedule_interval, config, initial_start, scheduled)} :
             ApiCall("add", r)

\* alter_job on an existing job, called by its owner
AlterJob ==
    \E j \in LiveJobs, args \in AlterArgs :
       \E r \in {job_alter(jobs, jobStat, jobSeq, hypertables, now, jobs[j].owner, <<j>>,
                           args, FALSE)} :
          ApiCall("alter", r)

\* alter_job on an existing job, called by another role
AlterJobDenied ==
    \E j \in LiveJobs, args \in AlterArgs : \E caller \in Roles \ {jobs[j].owner} :
       /\ \A f \in DOMAIN args : (args[f] = <<>>) = (args.config = <<>>)
       /\ \E r \in {job_alter(jobs, jobStat, jobSeq, hypertables, now, caller, <<j>>,
                              args, FALSE)} :
             ApiCall("alter", r)

\* alter_job without a job id, or with the id of no job
AlterJobMissing ==
    \E job_id \in {<<>>} \cup {<<j>> : j \in JobIds \ LiveJobs}, if_exists \in BOOLEAN,
       caller \in Roles :
       \E r \in {job_alter(jobs, jobStat, jobSeq, hypertables, now, caller, job_id,
                           NoArgs, if_exists)} :
          ApiCall("alter", r)

DeleteJob ==
    \E job_id \in {<<>>} \cup {<<j>> : j \in JobIds}, caller \in Roles :
       \E r \in {job_delete(jobs, jobStat, jobSeq, caller, job_id)} :
          ApiCall("delete", r)

\* the scheduler ran a scheduled job to its end and recorded the run
SchedulerRanJob ==
    \E j \in LiveJobs :
       /\ jobs[j].scheduled
       /\ jobStat' = [jobStat EXCEPT ![j] = Stat(now, now, now + jobs[j].schedule_interval)]
       /\ call' = [NoCall EXCEPT !.op = "scheduler", !.job = j]
       /\ UNCHANGED <<sessions, worker, tuplock>>
       /\ UNCHANGED <<now, hypertables, chunks, chunkStats, run, jobs, jobSeq>>
       /\ UNCHANGED execVars

InitAdmin == InitExec /\ InitCatalogIdle

NextAdmin ==
    \/ AddJob
    \/ AlterJob
    \/ AlterJobDenied
    \/ AlterJobMissing
    \/ DeleteJob
    \/ SchedulerRanJob

(***************************************************************************)
(* Calls on a catalog of several jobs, each recorded with its caller and   *)
(* its arguments                                                           *)
(***************************************************************************)
\* the catalog after the statement, what the statement did, who called it and with
\* which arguments, the datum it returned and the catalog it started from
ApiTrace(op, r, caller, args) ==
    /\ jobs' = r.jobs
    /\ jobStat' = r.jobStat
    /\ jobSeq' = r.jobSeq
    /\ call' = [op |-> op, job |-> r.job, ok |-> r.ok, err |-> r.err,
                config_check |-> r.config_check, config |-> r.config,
                writes |-> r.writes, caller |-> caller, args |-> args, ret |-> r.ret,
                validator |-> r.validator,
                before |-> [jobs |-> jobs, jobStat |-> jobStat, jobSeq |-> jobSeq]]
    /\ UNCHANGED <<sessions, worker, tuplock>>
    /\ UNCHANGED <<now, hypertables, chunks, chunkStats, run>>
    /\ UNCHANGED execVars

Owners == {"alice", "bob"}

\* add_job of a user's procedure, while job ids are left
AddOwnJob ==
    /\ jobSeq < MaxJobs
    /\ \E caller \in Owners :
          LET args == [proc |-> <<"custom_proc">>, schedule_interval |-> <<1>>,
                       config |-> <<>>, initial_start |-> <<>>, scheduled |-> <<>>]
          IN \E r \in {job_add(jobs, jobStat, jobSeq, hypertables, now, caller, args.proc,
                               args.schedule_interval, args.config, args.initial_start,
                               args.scheduled)} :
                ApiTrace("add", r, caller, args)

\* the one field an alter_job call sets
FieldArgs == {[NoArgs EXCEPT !.max_retries = <<-2>>],
              [NoArgs EXCEPT !.schedule_interval = <<0>>],
              [NoArgs EXCEPT !.scheduled = <<FALSE>>]}

\* alter_job of one field, called by the owner of the job
AlterOwnJob ==
    \E j \in LiveJobs, args \in FieldArgs :
       \E r \in {job_alter(jobs, jobStat, jobSeq, hypertables, now, jobs[j].owner, <<j>>,
                           args, FALSE)} :
          ApiTrace("alter", r, jobs[j].owner, ("job_id" :> <<j>>) @@ args)

\* delete_job of any job id, called by anybody
DeleteAnyJob ==
    \E job_id \in {<<>>} \cup {<<j>> : j \in JobIds}, caller \in Owners :
       \E r \in {job_delete(jobs, jobStat, jobSeq, caller, job_id)} :
          ApiTrace("delete", r, caller, [job_id |-> job_id])

\* run_job of any job id
RunAnyJob ==
    \E job_id \in {<<j>> : j \in JobIds}, caller \in Owners :
       \E r \in {job_run(jobs, jobStat, jobSeq, job_id)} :
          ApiTrace("run", r, caller, [job_id |-> job_id])

InitJobs == InitExec /\ InitCatalogIdle

(***************************************************************************)
(* add_job with every kind of argument                                     *)
(***************************************************************************)
AnyProcs == AddProcs \cup {<<"policy_retention">>, <<"policy_compression">>}

\* one add_job call on the catalog as it was found
AddAnyJob ==
    /\ call.op = "none"
    /\ \E caller \in Roles, proc \in AnyProcs, schedule_interval \in {<<>>, <<1>>},
          config \in OptionalDocs, initial_start \in {<<>>, <<2>>},
          scheduled \in {<<>>, <<TRUE>>, <<FALSE>>} :
          LET args == [proc |-> proc, schedule_interval |-> schedule_interval,
                       config |-> config, initial_start |-> initial_start,
                       scheduled |-> scheduled]
          IN \E r \in {job_add(jobs, jobStat, jobSeq, hypertables, now, caller, proc,
                               schedule_interval, config, initial_start, scheduled)} :
                ApiTrace("add", r, caller, args)

\* the catalog is empty, or holds a job of bob's that has run
InitAdd ==
    /\ InitExec
    /\ now = MaxTime
    /\ hypertables = {1, 2}
    /\ chunks = <<>>
    /\ chunkStats = {}
    /\ jobSeq \in {0, 1}
    /\ jobs = [j \in JobIds |->
                 IF j <= jobSeq
                 THEN Job("public", "custom_proc", 1, DEFAULT_MAX_RUNTIME,
                          DEFAULT_MAX_RETRIES, DEFAULT_RETRY_PERIOD, TRUE, "bob",
                          NULL_CONFIG)
                 ELSE NoJob]
    /\ jobStat = [j \in JobIds |-> IF j <= jobSeq THEN Stat(0, 0, 1) ELSE NoStat]
    /\ run = NoRun
    /\ call = NoCall
    /\ InitBackendsIdle

NextAdd == AddAnyJob

\* DROP TABLE of the hypertable the configs name
DropHypertable ==
    /\ 1 \in hypertables
    /\ hypertables' = hypertables \ {1}
    /\ call' = [NoCall EXCEPT !.op = "drop"]
    /\ UNCHANGED <<sessions, worker, tuplock>>
    /\ UNCHANGED <<now, chunks, chunkStats, run, jobs, jobSeq, jobStat>>
    /\ UNCHANGED execVars

(***************************************************************************)
(* Runs of a job of each of the four policies                              *)
(***************************************************************************)
\* the configs a job of each policy is given
PolicyDocs(name) ==
    CASE name = "policy_retention" -> {Doc(h, "", a, 0, 0) : h \in 1..3, a \in 1..2}
      [] name = "policy_reorder" -> {Doc(1, idx, 0, 0, 0) : idx \in {"idx1", "idx9"}}
      [] name = "policy_compression" ->
            {Doc(1, "", a, 0, 0) : a \in 0..1} \cup {Doc(3, "", 0, 0, 0)}
      [] name = "policy_refresh_continuous_aggregate" ->
            {Doc(2, "", 0, so, eo) : so \in 1..3, eo \in 1..2}

\* what a run did to the catalog and to the chunks, and the storage action it
\* issued (<<>> when it issued none)
PolicyExecuted(op, j, r, action, detail) ==
    /\ chunks' = r.chunks
    /\ chunkStats' = r.chunkStats
    /\ jobStat' = r.jobStat
    /\ run' = [op |-> op, job |-> j, ok |-> r.ok, err |-> r.err, chunkid |-> r.chunkid,
               restart |-> r.restart, eligible |-> {}, pre_stat |-> jobStat,
               pre_chunks |-> chunks, pre_cstats |-> chunkStats, action |-> action,
               detail |-> detail]
    /\ UNCHANGED <<sessions, worker, tuplock>>
    /\ UNCHANGED <<now, hypertables, jobs, jobSeq, call>>
    /\ UNCHANGED execVars

RunRetention ==
    \E j \in LiveJobs :
       /\ jobs[j].proc_name = "policy_retention"
       /\ \E r \in {policy_retention_execute(j, jobs[j].config, hypertables, chunks,
                                             chunkStats, jobStat, now)} :
             PolicyExecuted("policy_retention", j, r, r.action, <<>>)

RunReorder ==
    \E j \in LiveJobs :
       /\ jobs[j].proc_name = "policy_reorder"
       /\ \E r \in {policy_reorder_execute(j, jobs[j].config, hypertables, chunks,
                                           chunkStats, jobStat, now)} :
             PolicyExecuted("policy_reorder", j, r,
                            IF r.ok /\ r.chunkid > 0
                            THEN <<[kind |-> "reorder", chunkid |-> r.chunkid]>>
                            ELSE <<>>, <<>>)

RunCompression ==
    \E j \in LiveJobs :
       /\ jobs[j].proc_name = "policy_compression"
       /\ \E r \in {policy_compression_execute(j, jobs[j].config, hypertables, chunks,
                                               chunkStats, jobStat, now)} :
             PolicyExecuted("policy_compression", j, r,
                            IF r.ok /\ r.chunkid # INVALID_CHUNK_ID
                            THEN <<[kind |-> "compress", chunkid |-> r.chunkid]>>
                            ELSE <<>>, <<>>)

RunRefresh ==
    \E j \in LiveJobs :
       /\ jobs[j].proc_name = "policy_refresh_continuous_aggregate"
       /\ \E r \in {policy_refresh_cagg_execute(j, jobs[j].config, hypertables, chunks,
                                                chunkStats, jobStat, now)} :
             PolicyExecuted("policy_refresh_continuous_aggregate", j, r, r.action,
                            r.detail)

\* one job of one of the four policies, on a hypertable with some chunks
InitPolicies ==
    /\ InitExec
    /\ now = MaxTime
    /\ hypertables = {1, 2}
    /\ chunks \in ChunkSeqs(MaxCompressChunks, {"plain", "compressed"})
    /\ chunkStats = {}
    /\ \E name \in PolicyProcs : \E config \in PolicyDocs(name) :
          jobs = [j \in JobIds |-> IF j = 1 THEN PolicyJob(name, config) ELSE NoJob]
    /\ jobSeq = 1
    /\ \E st \in StatInits : jobStat = [j \in JobIds |-> IF j = 1 THEN st ELSE NoStat]
    /\ run = NoRun
    /\ call = NoCall
    /\ InitBackendsIdle

NextPolicies ==
    \/ RunRetention
    \/ RunReorder
    \/ RunCompression
    \/ RunRefresh

(***************************************************************************)
(* The four validators on config documents of every kind                   *)
(***************************************************************************)
ValidateDocs ==
    {Doc(h, idx, 1, so, eo) : h \in {1, 3}, idx \in {"idx1", "idx2", "idx9"},
                              so \in 1..3, eo \in 1..2}

\* a validator read a config and ended in err; it wrote nothing
Validated(validator, config, err) ==
    /\ call' = [NoCall EXCEPT !.op = "validate", !.ok = (err = ""), !.err = err,
                              !.config = config] @@ [validator |-> validator]
    /\ UNCHANGED <<sessions, worker, tuplock>>
    /\ UNCHANGED <<now, hypertables, chunks, chunkStats, run, jobs, jobSeq, jobStat>>
    /\ UNCHANGED execVars

ValidateRetention ==
    \E config \in ValidateDocs :
       \E err \in Outcomes(policy_retention_read_and_validate_config(
                              hypertables, config, now).err) :
          Validated("policy_retention", config, err)

ValidateReorder ==
    \E config \in ValidateDocs :
       \E err \in Outcomes(policy_reorder_read_and_validate_config(
                              hypertables, config).err) :
          Validated("policy_reorder", config, err)

ValidateCompression ==
    \E config \in ValidateDocs :
       \E err \in Outcomes(policy_compression_read_and_validate_config(
                              hypertables, config).err) :
          Validated("policy_compression", config, err)

ValidateRefresh ==
    \E config \in ValidateDocs :
       \E err \in Outcomes(policy_refresh_cagg_read_and_validate_config(
                              hypertables, config, now).err) :
          Validated("policy_refresh_continuous_aggregate", config, err)

InitValidate == InitExec /\ InitCatalogIdle

NextValidate ==
    \/ ValidateRetention
    \/ ValidateReorder
    \/ ValidateCompression
    \/ ValidateRefresh
    \/ DropHypertable

(***************************************************************************)
(* alter_job on one job, its schedule and its statistics                   *)
(***************************************************************************)
\* add_job by alice, while the catalog is still empty
AddTimedJob ==
    /\ jobSeq = 0
    /\ \E proc \in {<<"custom_proc">>, <<"policy_reorder">>}, config \in OptionalDocs,
          initial_start \in {<<>>, <<2>>} :
          LET args == [proc |-> proc, schedule_interval |-> <<1>>, config |-> config,
                       initial_start |-> initial_start, scheduled |-> <<>>]
          IN \E r \in {job_add(jobs, jobStat, jobSeq, hypertables, now, "alice", args.proc,
                               args.schedule_interval, args.config, args.initial_start,
                               args.scheduled)} :
                ApiTrace("add", r, "alice", args)

\* the arguments of an alter_job call that is about the schedule of the job
TimeArgs ==
    {a \in AlterArgs : /\ a.max_runtime = <<>>
                       /\ a.retry_period = <<>>
                       /\ a.scheduled = <<>>}
    \cup {[NoArgs EXCEPT !.schedule_interval = <<1>>, !.next_start = ns] :
             ns \in {<<>>, <<3>>}}

\* alter_job called by the owner of the job
AlterTimes ==
    \E j \in LiveJobs, args \in TimeArgs :
       \E r \in {job_alter(jobs, jobStat, jobSeq, hypertables, now, jobs[j].owner, <<j>>,
                           args, FALSE)} :
          ApiTrace("alter", r, jobs[j].owner, ("job_id" :> <<j>>) @@ args)

InitAlter == InitExec /\ InitCatalogIdle

NextAlter ==
    \/ AddTimedJob
    \/ AlterTimes
    \/ SchedulerRanJob
    \/ DropHypertable

NextJobs ==
    \/ AddOwnJob
    \/ AlterOwnJob
    \/ DeleteAnyJob
    \/ RunAnyJob

(***************************************************************************)
(* Specifications                                                          *)
(***************************************************************************)
InitIdle == InitExec /\ InitCatalogIdle

SpecExec == InitIdle /\ [][NextExec]_vars

InitCompress ==
    InitExec /\ InitPolicy("policy_compression", MaxCompressChunks, {"plain", "compressed"})

NextCompress == FirstCompression \/ FastRestartCompression \/ PeriodicCompression

SpecCompress ==
    /\ InitCompress
    /\ [][NextCompress]_vars

\* the scheduler starts a scheduled job, and starts it again when next_start was
\* put back by fast restart
FairSpecCompress ==
    /\ SpecCompress
    /\ WF_vars(FirstCompression)
    /\ WF_vars(FastRestartCompression)

SpecAdmin == InitAdmin /\ [][NextAdmin]_vars

SpecJobs == InitJobs /\ [][NextJobs]_vars

SpecAlter == InitAlter /\ [][NextAlter]_vars

SpecAdd == InitAdd /\ [][NextAdd]_vars

SpecValidate == InitValidate /\ [][NextValidate]_vars

SpecPolicies == InitPolicies /\ [][NextPolicies]_vars

\* the runs of the job, and the hypertable dropped between two of them
NextPoliciesDrop ==
    \/ RunRetention
    \/ RunReorder
    \/ RunCompression
    \/ RunRefresh
    \/ DropHypertable

SpecPoliciesDrop == InitPolicies /\ [][NextPoliciesDrop]_vars

InitReorder ==
    InitExec /\ InitPolicy("policy_reorder", MaxChunks, {"plain", "compressed", "dropped"})

\* the reorder job on a hypertable of plain chunks
InitReorderRuns ==
    /\ InitExec
    /\ now = MaxTime
    /\ hypertables = {1, 2}
    /\ chunks \in ChunkSeqs(MaxChunks, {"plain"})
    /\ chunkStats = {}
    /\ jobs = [j \in JobIds |->
                 IF j = 1 THEN PolicyJob("policy_reorder", Doc(1, "idx1", 0, 0, 0))
                 ELSE NoJob]
    /\ jobSeq = 1
    /\ \E st \in StatInits : jobStat = [j \in JobIds |-> IF j = 1 THEN st ELSE NoStat]
    /\ run = NoRun
    /\ call = NoCall
    /\ InitBackendsIdle

NextReorder == FastRestartReorder \/ PeriodicReorder

SpecReorder ==
    /\ InitReorder
    /\ [][NextReorder]_vars

NextReorderRuns == FirstReorder \/ FastRestartReorder \/ PeriodicReorder

\* the scheduler starts the job a first time, and starts it again at once when
\* next_start was put back by fast restart; nothing is assumed about the runs
\* it starts when the period of the job has passed
FairSpecReorder ==
    /\ InitReorderRuns
    /\ [][NextReorderRuns]_vars
    /\ WF_vars(FirstReorder)
    /\ WF_vars(FastRestartReorder)

(***************************************************************************)
(* Properties of job_execute (SpecExec)                                    *)
(***************************************************************************)
\* C1: job_execute commits the ambient transaction if and only if it opened that
\* transaction itself at entry.  Entered inside an open transaction it never
\* commits; entered with no transaction open it opens one (the flag
\* transaction_started records it) and, once the callable has returned, it has
\* committed exactly once, and what it committed is the transaction open at that
\* point.
C1_CommitIffStarted ==
    /\ Len(execCommits) <= 1
    /\ pc # "idle" => transaction_started = ~entry.open
    /\ (pc # "idle" /\ entry.open) => execCommits = <<>>
    /\ pc \in {"ready", "returned"} => (xactOpen /\ execCommits = <<>>)
    /\ pc = "done" => /\ (Len(execCommits) = 1) = ~entry.open
                      /\ xactOpen = entry.open
                      /\ \A i \in 1..Len(execCommits) : execCommits[i] \in committed
    /\ pc # "crash"

\* reached: a call entered with no transaction open has returned and committed
C1_Witness ==
    pc = "done" /\ ~entry.open /\ Len(execCommits) = 1 /\ callable = "plain"

C3_CallableCommits ==
    callable = "commits" =>
        /\ pc \in {"returned", "done"}
        /\ execPops = <<>>
        /\ pc = "returned" => (xactOpen /\ xid \notin committed /\ snapStack = <<>>)
        /\ pc = "done" =>
              /\ execCommits = IF transaction_started THEN <<nextXid - 1>> ELSE <<>>
              /\ ~transaction_started => (xactOpen /\ xid \notin committed)
              /\ Cardinality(committed) >= Len(execCommits) + 1

\* reached: entered inside a transaction without a snapshot, the callable
\* committed, and the call returned without popping or committing
C3_Witness ==
    /\ pc = "done" /\ callable = "commits"
    /\ pushed_snapshot /\ ~transaction_started
    /\ execPops = <<>> /\ execCommits = <<>>

\* C4: within one call the callable is dispatched at most once, exactly once when
\* it resolves to a function or a procedure and the call gets that far, and a
\* failure inside the callable leaves job_execute as an error: no success, no
\* commit by job_execute, no second dispatch.
C4_DispatchOnce ==
    /\ dispatches <= 1
    /\ pc \in {"returned", "done"} => dispatches = 1
    /\ (pc = "error" /\ errcode = "CallableError") => (dispatches = 1 /\ execCommits = <<>>)
    /\ callable = "fails" => (pc = "error" /\ execCommits = <<>> /\ dispatches = 1)
    /\ (pc = "error" /\ errcode # "CallableError") => dispatches = 0

\* reached: the callable failed and the error left job_execute
C4_Witness ==
    pc = "error" /\ callable = "fails" /\ dispatches = 1 /\ ~entry.open

(***************************************************************************)
(* Properties of the compression policy and fast restart (SpecCompress)    *)
(***************************************************************************)
Boundary(j) == get_window_boundary(now, jobs[j].config.after)

\* chunks the compression job j still has to compress
Remaining(j) == CompressCandidates(chunks, jobs[j].config.hypertable_id, Boundary(j))

Compressed(chs) == {i \in ChunkIds(chs) : chs[i].compressed}

\* C5: fast restart for a job sets next_start to the job's last_start when the job
\* has statistics, creates statistics with next_start = now when it has none, and
\* leaves the statistics of every other job as they were.
C5_FastRestart ==
    (run.op = "policy_compression" /\ run.restart) =>
        LET j == run.job
            pre == run.pre_stat[j]
        IN /\ pre.exists => jobStat[j] = [pre EXCEPT !.next_start = pre.last_start]
           /\ ~pre.exists => /\ jobStat[j].exists
                             /\ jobStat[j].next_start = now
                             /\ jobStat[j].last_start = DT_NOBEGIN
           /\ \A k \in JobIds \ {j} : jobStat[k] = run.pre_stat[k]

\* reached: fast restart created the statistics of a job that had none
C5_Witness ==
    /\ run.op = "policy_compression" /\ run.restart
    /\ ~run.pre_stat[1].exists /\ jobStat[1].exists

\* C6 as stated: a run that compressed a chunk and leaves another eligible chunk
\* forces next_start to the previous last_start; with none left it does not touch
\* next_start.
C6_RestartToLastStart ==
    (run.op = "policy_compression" /\ run.chunkid # INVALID_CHUNK_ID) =>
        LET j == run.job
        IN /\ Remaining(j) # {} => /\ run.restart
                                   /\ run.pre_stat[j].exists
                                   /\ jobStat[j].next_start = run.pre_stat[j].last_start
           /\ Remaining(j) = {} => (~run.restart /\ jobStat = run.pre_stat)

\* C6 amended: a run that compressed a chunk and leaves another eligible chunk
\* requests fast restart: next_start becomes the previous last_start when the job
\* had statistics, and otherwise statistics are created with next_start = now; with
\* no eligible chunk left the run changes no job statistics.
C6_RestartAmended ==
    (run.op = "policy_compression" /\ run.chunkid # INVALID_CHUNK_ID) =>
        LET j == run.job
            pre == run.pre_stat[j]
        IN /\ run.chunkid \in Compressed(chunks) \ Compressed(run.pre_chunks)
           /\ Remaining(j) # {} =>
                 /\ run.restart
                 /\ pre.exists => jobStat[j].next_start = pre.last_start
                 /\ ~pre.exists => (jobStat[j].exists /\ jobStat[j].next_start = now)
           /\ Remaining(j) = {} => (~run.restart /\ jobStat = run.pre_stat)

\* reached: a chunk was compressed, another is left, next_start went back to
\* last_start
C6_Witness ==
    /\ run.op = "policy_compression" /\ run.chunkid # INVALID_CHUNK_ID
    /\ Remaining(1) # {} /\ run.pre_stat[1].exists
    /\ run.pre_stat[1].last_start # run.pre_stat[1].next_start
    /\ jobStat[1].next_start = run.pre_stat[1].last_start

\* C7: with the chunks and the boundary fixed and a scheduler that starts the job
\* and starts it again after every fast restart, eventually no chunk that ends
\* before the boundary is left uncompressed; a run compresses at most one chunk;
\* and a run that starts with none left compresses nothing and does not request
\* fast restart.
C7_AllCompressedEventually ==
    /\ <>(Remaining(1) = {})
    /\ [][Cardinality(Compressed(chunks')) <= Cardinality(Compressed(chunks)) + 1]_vars
    /\ [][Remaining(1) = {} => (chunks' = chunks /\ ~run'.restart /\ jobStat' = jobStat)]_vars

\* reached: every eligible chunk is compressed after several runs, and a further
\* run found nothing to do
C7_Witness ==
    /\ Remaining(1) = {}
    /\ run.op = "policy_compression" /\ run.chunkid = INVALID_CHUNK_ID /\ ~run.restart
    /\ Cardinality({i \in ChunkIds(chunks) : chunks[i].range_end < Boundary(1)}) >= 2
    /\ jobStat[1].exists /\ jobStat[1].next_start = jobStat[1].last_start

(***************************************************************************)
(* Properties of the reorder policy's chunk selection (SpecReorder)        *)
(***************************************************************************)
\* n chunks, one per time slice, none compressed, dropped or reordered by job 1
PlainChunks(chs, cstats, n) ==
    /\ Len(chs) = n
    /\ \A i \in ChunkIds(chs) : ~chs[i].compressed /\ ~chs[i].dropped
    /\ \A i, k \in ChunkIds(chs) : i # k => chs[i].range_start # chs[k].range_start
    /\ cstats = {}

\* the chunks the selection can return: chunk i is eligible when the selection
\* returns it once every other chunk is recorded as reordered
EligibleForReorder(chs, job_id, ht) ==
    {i \in ChunkIds(chs) :
        get_chunk_id_to_reorder(chs, {<<job_id, k>> : k \in ChunkIds(chs) \ {i}},
                                job_id, ht) = i}

\* C8 as stated: 3 chunks give no eligible chunk, 4 chunks exactly the oldest.
C8_SkipThree ==
    /\ PlainChunks(chunks, chunkStats, 3) =>
          /\ EligibleForReorder(chunks, 1, 1) = {}
          /\ get_chunk_id_to_reorder(chunks, chunkStats, 1, 1) = -1
    /\ PlainChunks(chunks, chunkStats, 4) => EligibleForReorder(chunks, 1, 1) = {1}

\* C8 amended: with skip-recent = 3 the 3rd newest slice is itself eligible: fewer
\* than 3 chunks give no eligible chunk, exactly 3 chunks make exactly the oldest
\* chunk eligible, and with exactly 4 chunks the two oldest are eligible and the
\* oldest is the one selected.
C8_SkipTwoNewest ==
    /\ \A n \in 0..2 : PlainChunks(chunks, chunkStats, n) =>
          /\ EligibleForReorder(chunks, 1, 1) = {}
          /\ get_chunk_id_to_reorder(chunks, chunkStats, 1, 1) = -1
    /\ PlainChunks(chunks, chunkStats, 3) =>
          /\ EligibleForReorder(chunks, 1, 1) = {1}
          /\ get_chunk_id_to_reorder(chunks, chunkStats, 1, 1) = 1
    /\ PlainChunks(chunks, chunkStats, 4) =>
          /\ EligibleForReorder(chunks, 1, 1) = {1, 2}
          /\ get_chunk_id_to_reorder(chunks, chunkStats, 1, 1) = 1
    /\ (run.op = "policy_reorder" /\ PlainChunks(run.pre_chunks, run.pre_cstats, 3)) =>
          (run.chunkid = 1 /\ ~run.restart)
    /\ (run.op = "policy_reorder" /\ PlainChunks(run.pre_chunks, run.pre_cstats, 4)) =>
          (run.chunkid = 1 /\ run.restart)

\* reached: a run on a hypertable with exactly 3 plain chunks reordered the oldest
C8_Witness ==
    /\ run.op = "policy_reorder" /\ PlainChunks(run.pre_chunks, run.pre_cstats, 3)
    /\ run.chunkid = 1 /\ chunkStats = {<<1, 1>>}

(***************************************************************************)
(* Properties of add_job and alter_job (SpecAdmin)                         *)
(***************************************************************************)
\* the config does not pass the check of the job's policy
ConfigInvalid(job, config) ==
    /\ ~config.isnull
    /\ job_config_check(job.proc_schema, job.proc_name, config, hypertables, now) # ""

\* C9: alter_job never partially commits.  When the config the altered row would
\* carry fails the check of the job's policy, the persisted job rows (with
\* schedule_interval, max_runtime, max_retries, retry_period, scheduled and config)
\* and the job statistics (with next_start) after the call are what they were before
\* it, whichever of the optional arguments the call supplied.
C9_AlterNeverPartiallyCommits ==
    [][(/\ call'.op = "alter"
        /\ ts_bgw_job_find(jobs, call'.job)
        /\ ConfigInvalid(jobs[call'.job], call'.config))
       => (jobs' = jobs /\ jobStat' = jobStat)]_vars

\* reached: alter_job changed the interval of a job with statistics, issued the
\* update of next_start, then failed the config check; the statistics still hold
\* the next_start the scheduler had recorded
C9_Witness ==
    /\ call.op = "alter" /\ ~call.ok /\ call.config_check = "failed"
    /\ call.writes = <<"bgw_job_stat">>
    /\ jobs[call.job].exists /\ jobs[call.job].schedule_interval = 1
    /\ jobStat[call.job] = Stat(now, now, now + 1)

\* C10 as stated: in add_job and in alter_job the config check is over before the
\* first write to the catalog, so a call whose config check failed has issued no
\* write to bgw_job or bgw_job_stat.
C10_ValidationBeforeWrites ==
    (call.op \in {"add", "alter"} /\ call.config_check = "failed") => call.writes = <<>>

(***************************************************************************)
(* Invariants of the job table                                             *)
(***************************************************************************)
\* C11: every job row of the catalog has max_retries >= -1, whatever calls of
\* add_job, alter_job, delete_job and run_job led to it
C11_MaxRetriesAtLeastMinusOne ==
    \A j \in JobIds : jobs[j].exists => jobs[j].max_retries >= -1

\* C12: every job row of the catalog that is scheduled has a schedule_interval
\* above zero
C12_ScheduledIntervalPositive ==
    \A j \in JobIds :
       (jobs[j].exists /\ jobs[j].scheduled) => jobs[j].schedule_interval > 0

(***************************************************************************)
(* delete_job                                                              *)
(***************************************************************************)
\* C19: delete_job of an id that names no job fails with UndefinedObject; called
\* by a role without the privileges of the job's owner it fails with
\* InsufficientPrivilege and the row stays; otherwise the row is gone; in all three
\* cases the row of every other job is what it was
C19_DeleteOneJob ==
    [][(call'.op = "delete" /\ ~PG_ARGISNULL(call'.args.job_id)) =>
          LET id == PG_GETARG(call'.args.job_id)
          IN /\ ~jobs[id].exists => (~call'.ok /\ call'.err = "UndefinedObject")
             /\ (jobs[id].exists /\ ~has_privs_of_role(call'.caller, jobs[id].owner)) =>
                   (~call'.ok /\ call'.err = "InsufficientPrivilege"
                    /\ jobs'[id] = jobs[id])
             /\ (jobs[id].exists /\ has_privs_of_role(call'.caller, jobs[id].owner)) =>
                   (call'.ok /\ ~jobs'[id].exists)
             /\ \A k \in JobIds \ {id} : jobs'[k] = jobs[k]]_vars

\* a delete_job that was refused for want of privileges while another job exists
C19_Witness ==
    /\ call.op = "delete"
    /\ call.err = "InsufficientPrivilege"
    /\ \E j, k \in JobIds :
          /\ j # k
          /\ call.args.job_id = <<j>>
          /\ jobs[j].exists /\ jobs[k].exists
          /\ jobs[j].owner # call.caller

(***************************************************************************)
(* alter_job: schedule_interval and next_start                             *)
(***************************************************************************)
\* alter_job on job j returned
Altered(j) ==
    /\ call.op = "alter"
    /\ call.ok
    /\ call.args.job_id = <<j>>
    /\ call.before.jobs[j].exists

\* the call gave a schedule_interval that is not the one the row had
IntervalChanged(j) ==
    /\ ~PG_ARGISNULL(call.args.schedule_interval)
    /\ PG_GETARG(call.args.schedule_interval) # call.before.jobs[j].schedule_interval

\* C13 as stated: an alter_job that changes schedule_interval to I on a job whose
\* statistics exist with a last_finish T, T + I not being the unset value, leaves
\* next_start = T + I in the catalog and in the row it returns; without statistics
\* it creates none
C13_NextStartFollowsInterval ==
    \A j \in JobIds :
       (Altered(j) /\ IntervalChanged(j)) =>
          LET stat == call.before.jobStat[j]
              I == PG_GETARG(call.args.schedule_interval)
          IN IF stat.exists
             THEN stat.last_finish # DT_NOBEGIN =>
                     /\ jobStat[j].next_start = stat.last_finish + I
                     /\ call.ret[1].next_start = stat.last_finish + I
             ELSE ~jobStat[j].exists

\* C13, amended: the same for the calls that give no explicit next_start
C13_NextStartFollowsIntervalAlone ==
    \A j \in JobIds :
       (Altered(j) /\ IntervalChanged(j) /\ PG_ARGISNULL(call.args.next_start)) =>
          LET stat == call.before.jobStat[j]
              I == PG_GETARG(call.args.schedule_interval)
          IN IF stat.exists
             THEN stat.last_finish # DT_NOBEGIN =>
                     /\ jobStat[j].next_start = stat.last_finish + I
                     /\ jobStat[j].last_finish = stat.last_finish
                     /\ call.ret[1].next_start = stat.last_finish + I
             ELSE ~jobStat[j].exists

\* the interval of a job that had run was changed, and of a job without statistics
C13_Witness ==
    \E j \in JobIds :
       /\ Altered(j) /\ IntervalChanged(j) /\ PG_ARGISNULL(call.args.next_start)
       /\ call.before.jobStat[j].exists
       /\ call.before.jobStat[j].last_finish # DT_NOBEGIN
       /\ jobStat[j].next_start # call.before.jobStat[j].next_start

\* C14 as stated: when alter_job changes schedule_interval, the statistics exist
\* and last_finish + the new interval is the unset value, next_start keeps the value
\* it had before the call
C14_NextStartUntouched ==
    \A j \in JobIds :
       (/\ Altered(j) /\ IntervalChanged(j) /\ PG_ARGISNULL(call.args.next_start)
        /\ call.before.jobStat[j].exists
        /\ call.before.jobStat[j].last_finish = DT_NOBEGIN) =>
          jobStat[j].next_start = call.before.jobStat[j].next_start

\* C14, amended: in that case next_start is the unset value after the call, in the
\* catalog and in the row returned, whatever it was before; the rest of the
\* statistics is untouched
C14_NextStartUnset ==
    \A j \in JobIds :
       (/\ Altered(j) /\ IntervalChanged(j) /\ PG_ARGISNULL(call.args.next_start)
        /\ call.before.jobStat[j].exists
        /\ call.before.jobStat[j].last_finish = DT_NOBEGIN) =>
          /\ jobStat[j] = [call.before.jobStat[j] EXCEPT !.next_start = DT_NOBEGIN]
          /\ call.ret[1].next_start = DT_NOBEGIN

\* the interval of a job that never ran but had a next_start was changed
C14_Witness ==
    \E j \in JobIds :
       /\ Altered(j) /\ IntervalChanged(j) /\ PG_ARGISNULL(call.args.next_start)
       /\ call.before.jobStat[j].exists
       /\ call.before.jobStat[j].last_finish = DT_NOBEGIN
       /\ call.before.jobStat[j].next_start # DT_NOBEGIN

\* C15: an alter_job that gives an explicit next_start leaves that value in the
\* catalog and in the row it returns, also when the same call changes
\* schedule_interval; statistics that did not exist are created with it
C15_ExplicitNextStartWins ==
    \A j \in JobIds :
       (Altered(j) /\ ~PG_ARGISNULL(call.args.next_start)) =>
          /\ jobStat[j].exists
          /\ jobStat[j].next_start = PG_GETARG(call.args.next_start)
          /\ call.ret[1].next_start = PG_GETARG(call.args.next_start)

\* an explicit next_start came with a new interval on a job that had run, the
\* recomputed value being another one
C15_Witness ==
    \E j \in JobIds :
       /\ Altered(j) /\ IntervalChanged(j) /\ ~PG_ARGISNULL(call.args.next_start)
       /\ call.before.jobStat[j].exists
       /\ call.before.jobStat[j].last_finish # DT_NOBEGIN
       /\ call.before.jobStat[j].last_finish + PG_GETARG(call.args.schedule_interval)
             # PG_GETARG(call.args.next_start)

\* C16: an alter_job that gives the job id and nothing else leaves every field of
\* the job row and the statistics of the job, next_start included, as they were,
\* and creates no statistics
C16_AlterNothing ==
    \A j \in JobIds :
       (/\ call.op = "alter"
        /\ call.args.job_id = <<j>>
        /\ \A f \in DOMAIN NoArgs : PG_ARGISNULL(call.args[f])) =>
          /\ jobs = call.before.jobs
          /\ jobStat = call.before.jobStat

\* nothing was given for a job whose next_start is not last_finish + interval
C16_Witness ==
    \E j \in JobIds :
       /\ Altered(j)
       /\ \A f \in DOMAIN NoArgs : PG_ARGISNULL(call.args[f])
       /\ jobStat[j].exists
       /\ jobStat[j].next_start # timestamptz_pl_interval(jobStat[j].last_finish,
                                                          jobs[j].schedule_interval)

(***************************************************************************)
(* add_job                                                                 *)
(***************************************************************************)
\* the checks of add_job that come before the config is looked at
PassesArgumentChecks(caller, args) ==
    /\ ~PG_ARGISNULL(args.proc)
    /\ ~PG_ARGISNULL(args.schedule_interval)
    /\ get_func_name(PG_GETARG(args.proc)) # ""
    /\ pg_proc_aclcheck(PG_GETARG(args.proc), caller)
    /\ ts_bgw_job_validate_job_owner(caller)

\* the proc argument is one of the built-in policies
NamesPolicy(args) ==
    /\ ~PG_ARGISNULL(args.proc)
    /\ PG_GETARG(args.proc) \in PolicyProcs

\* C17: an add_job that fails at any of its checks has inserted no job row and no
\* statistics row; a policy validator reads the config of the calls that got as far
\* as the config check with a config and the procedure of a built-in policy, and of
\* no other call
C17_AddFailsCleanly ==
    call.op = "add" =>
       /\ ~call.ok => /\ jobs = call.before.jobs
                      /\ jobStat = call.before.jobStat
                      /\ call.ret = <<>>
       /\ call.validator # "" <=>
             /\ PassesArgumentChecks(call.caller, call.args)
             /\ ~PG_ARGISNULL(call.args.config)
             /\ NamesPolicy(call.args)
       /\ call.validator # "" => call.validator = PG_GETARG(call.args.proc)

\* an add_job failed in the validator of its policy, on a catalog with a job in it
C17_Witness ==
    /\ call.op = "add"
    /\ ~call.ok
    /\ call.validator = "policy_reorder"
    /\ call.config_check = "failed"
    /\ \E j \in JobIds : jobs[j].exists

\* C18: an add_job that succeeds inserts one new job row that holds the proc, the
\* schedule_interval, the config and the scheduled flag it was given and is owned by
\* the caller, and returns the id of that row; the new job has statistics, with
\* next_start = initial_start, exactly when initial_start was given
C18_AddInsertsOneJob ==
    (call.op = "add" /\ call.ok) =>
       LET id == call.ret[1]
           args == call.args
           proc == PG_GETARG(args.proc)
       IN /\ id \in JobIds
          /\ ~call.before.jobs[id].exists
          /\ jobs[id].exists
          /\ jobs[id].proc_name = proc
          /\ jobs[id].proc_schema = get_func_namespace(proc)
          /\ jobs[id].schedule_interval = PG_GETARG(args.schedule_interval)
          /\ jobs[id].config = (IF PG_ARGISNULL(args.config) THEN NULL_CONFIG
                                ELSE PG_GETARG(args.config))
          /\ jobs[id].scheduled = (IF PG_ARGISNULL(args.scheduled) THEN TRUE
                                   ELSE PG_GETARG(args.scheduled))
          /\ jobs[id].owner = call.caller
          /\ \A k \in JobIds \ {id} : /\ jobs[k] = call.before.jobs[k]
                                       /\ jobStat[k] = call.before.jobStat[k]
          /\ IF PG_ARGISNULL(args.initial_start)
             THEN ~jobStat[id].exists
             ELSE /\ jobStat[id].exists
                  /\ jobStat[id].next_start = PG_GETARG(args.initial_start)

\* a second job was added, unscheduled, with a config and an initial_start
C18_Witness ==
    /\ call.op = "add"
    /\ call.ok
    /\ call.ret = <<2>>
    /\ call.args.scheduled = <<FALSE>>
    /\ ~PG_ARGISNULL(call.args.config)
    /\ ~PG_ARGISNULL(call.args.initial_start)
    /\ jobs[1].exists /\ jobs[1].owner # call.caller

(***************************************************************************)
(* Validators and hypertables that do not exist                            *)
(***************************************************************************)
\* C20: each of the four validators (retention, reorder, compression, refresh),
\* given a config whose hypertable id names no hypertable, ends in the
\* InvalidParameter error, not in a crash or in another error or in success, and
\* changes nothing in the catalog
C20_MissingHypertableInvalidParameter ==
    (/\ call.op = "validate"
     /\ ~ts_hypertable_get_by_id(hypertables, call.config.hypertable_id)) =>
       /\ call.err = "InvalidParameter"
       /\ jobs = [j \in JobIds |-> NoJob]
       /\ jobStat = [j \in JobIds |-> NoStat]
       /\ chunks = <<>>
       /\ chunkStats = {}

(***************************************************************************)
(* Validators: the reorder index                                           *)
(***************************************************************************)
\* C21: the reorder validator, given a config whose index_name names no index,
\* fails with UndefinedObject (and nothing is reordered: a validator writes nothing)
C21_MissingIndexUndefinedObject ==
    (/\ call.op = "validate"
     /\ call.validator = "policy_reorder"
     /\ ts_hypertable_get_by_id(hypertables, call.config.hypertable_id)
     /\ IndexTable(call.config.index_name) = 0) =>
       /\ ~call.ok
       /\ call.err = "UndefinedObject"
       /\ chunkStats = {}

(***************************************************************************)
(* Claims about runs of the retention and the refresh policy               *)
(***************************************************************************)
\* the window a refresh run of job j computes
RefreshStart(j) == now - jobs[j].config.start_offset
RefreshEnd(j) == now - jobs[j].config.end_offset

\* C22: a refresh run whose window has start >= end fails with InvalidParameter,
\* reports the start and the end, and refreshes nothing; a run whose window has
\* start < end succeeds and refreshes exactly that window
C22_RefreshWindowValidated ==
    run.op = "policy_refresh_continuous_aggregate" =>
       /\ RefreshStart(run.job) >= RefreshEnd(run.job) =>
             /\ ~run.ok
             /\ run.err = "InvalidParameter"
             /\ run.detail = <<ToString(RefreshStart(run.job)),
                               ToString(RefreshEnd(run.job))>>
             /\ run.action = <<>>
       /\ RefreshStart(run.job) < RefreshEnd(run.job) =>
             /\ run.ok
             /\ Len(run.action) = 1
             /\ run.action[1].kind = "refresh"
             /\ run.action[1].start = RefreshStart(run.job)
             /\ run.action[1].end = RefreshEnd(run.job)

\* a refresh run failed on a window whose start equals its end
C22_Witness ==
    /\ run.op = "policy_refresh_continuous_aggregate"
    /\ ~run.ok
    /\ RefreshStart(run.job) = RefreshEnd(run.job)
    /\ Len(run.detail) = 2

\* C23: a retention run on the materialization hypertable of a continuous
\* aggregate drops chunks through the aggregate's view, never through the
\* materialization table; on any other hypertable it drops through the hypertable
C23_RetentionDropTarget ==
    (run.op = "policy_retention" /\ run.ok) =>
       /\ Len(run.action) = 1
       /\ run.action[1].kind = "drop_chunks"
       /\ run.action[1].relid.id = jobs[run.job].config.hypertable_id
       /\ run.action[1].relid.kind =
             IF jobs[run.job].config.hypertable_id \in MaterializationHypertables
             THEN "view" ELSE "table"

\* a retention run dropped chunks through the view of a continuous aggregate
C23_Witness ==
    /\ run.op = "policy_retention"
    /\ run.ok
    /\ jobs[run.job].config.hypertable_id \in MaterializationHypertables
    /\ run.action[1].relid.kind = "view"

(***************************************************************************)
(* Read+Validate run twice on one config                                   *)
(***************************************************************************)
\* what a validator resolved: the relation or hypertable, and the index, the
\* boundary or the window
ReadAndValidate(validator, hts, config, t) ==
    CASE validator = "policy_retention" ->
            LET r == policy_retention_read_and_validate_config(hts, config, t)
            IN [err |-> r.err, target |-> <<r.object_relid, r.boundary>>]
      [] validator = "policy_reorder" ->
            LET r == policy_reorder_read_and_validate_config(hts, config)
            IN [err |-> r.err, target |-> <<r.hypertable, r.index_relid>>]
      [] validator = "policy_compression" ->
            LET r == policy_compression_read_and_validate_config(hts, config)
            IN [err |-> r.err, target |-> <<r.hypertable>>]
      [] validator = "policy_refresh_continuous_aggregate" ->
            LET r == policy_refresh_cagg_read_and_validate_config(hts, config, t)
            IN [err |-> r.err, target |-> <<r.cagg, r.start, r.end>>]

\* the windows a validator can come to that went on with a dimension it read
\* through a NULL hypertable
UndefinedWindows == {<<NoRelation, 0, 1>>, <<NoRelation, 1, 2>>}

\* the results a validator can end in, given the result the model computed for it
Results(r) ==
    IF r.err = "undefined"
    THEN {[err |-> err, target |-> r.target] : err \in NullDereference \ {""}}
         \cup {[err |-> "", target |-> w] : w \in UndefinedWindows}
    ELSE {r}

\* the behaviour of the validator on the config is defined by its code
Defined(validator, hts, config) ==
    \/ validator # "policy_refresh_continuous_aggregate"
    \/ ts_hypertable_get_by_id(hts, config.hypertable_id)

RevalidateDocs ==
    {Doc(h, idx, 1, so, eo) : h \in 1..3, idx \in {"idx1", "idx9"}, so \in 1..3,
                              eo \in 1..2}

\* a validator that records a run in the chunk statistics
ReadAndValidatedWithStats(validator, config, runs, first, second, before) ==
    /\ call' = [NoCall EXCEPT !.op = "read_and_validate", !.ok = (second.err = ""),
                              !.err = second.err, !.config = config]
                  @@ [validator |-> validator, runs |-> runs, first |-> first,
                      second |-> second, before |-> before]
    /\ chunkStats' = chunkStats \cup {[job_id |-> 1, chunk_id |-> 1, num_times_job_run |-> 1]}
    /\ UNCHANGED <<sessions, worker, tuplock>>
    /\ UNCHANGED <<now, hypertables, chunks, run, jobs, jobSeq, jobStat>>
    /\ UNCHANGED execVars

\* a validator read a config for the runs-th time and ended in the result second;
\* it wrote nothing
ReadAndValidated(validator, config, runs, first, second, before) ==
    /\ call' = [NoCall EXCEPT !.op = "read_and_validate", !.ok = (second.err = ""),
                              !.err = second.err, !.config = config]
                  @@ [validator |-> validator, runs |-> runs, first |-> first,
                      second |-> second, before |-> before]
    /\ UNCHANGED <<sessions, worker, tuplock>>
    /\ UNCHANGED <<now, hypertables, chunks, chunkStats, run, jobs, jobSeq, jobStat>>
    /\ UNCHANGED execVars

ValidateFirst ==
    /\ call.op = "none"
    /\ \E validator \in PolicyProcs, config \in RevalidateDocs :
       \E r \in Results(ReadAndValidate(validator, hypertables, config, now)) :
          ReadAndValidated(validator, config, 1, r, r,
                           [jobs |-> jobs, jobStat |-> jobStat, chunks |-> chunks,
                            chunkStats |-> chunkStats])

\* the same validator on the same config, straight after its first run
ValidateAgain ==
    /\ call.op = "read_and_validate"
    /\ call.runs = 1
    /\ \E r \in Results(ReadAndValidate(call.validator, hypertables, call.config, now)) :
          ReadAndValidated(call.validator, call.config, 2, call.first, r, call.before)

InitRevalidate ==
    /\ InitExec
    /\ now \in 2..MaxTime
    /\ hypertables = {1, 2}
    /\ chunks \in ChunkSeqs(1, {"plain"})
    /\ chunkStats = {}
    /\ jobs = [j \in JobIds |->
                 IF j = 1 THEN PolicyJob("policy_retention", Doc(1, "idx1", 1, 3, 1))
                 ELSE NoJob]
    /\ jobSeq = 1
    /\ \E st \in StatInits : jobStat = [j \in JobIds |-> IF j = 1 THEN st ELSE NoStat]
    /\ run = NoRun
    /\ call = NoCall
    /\ InitBackendsIdle

NextRevalidate ==
    \/ ValidateFirst
    \/ ValidateAgain

SpecRevalidate == InitRevalidate /\ [][NextRevalidate]_vars

NothingToDo ==
    LET config == jobs[run.job].config
    IN \/ /\ run.op = "policy_reorder"
          /\ policy_reorder_read_and_validate_config(hypertables, config).ok
          /\ get_chunk_id_to_reorder(run.pre_chunks, run.pre_cstats, run.job,
                                     config.hypertable_id) = -1
       \/ /\ run.op = "policy_compression"
          /\ policy_compression_read_and_validate_config(hypertables, config).ok
          /\ get_chunk_to_compress(run.pre_chunks, config.hypertable_id, config, now)
                = INVALID_CHUNK_ID

\* C25: a reorder run that finds no eligible chunk, and a compression run that
\* finds no chunk ending before the boundary, return success, reorder or compress
\* nothing, record no chunk-stats run and do not request a fast restart
C25_NothingToDoSucceeds ==
    NothingToDo =>
       /\ run.ok
       /\ run.err = ""
       /\ run.action = <<>>
       /\ chunks = run.pre_chunks
       /\ chunkStats = run.pre_cstats
       /\ ~run.restart
       /\ jobStat = run.pre_stat

\* a reorder run on a hypertable with chunks, none of them eligible
C25_Witness ==
    /\ NothingToDo
    /\ run.op = "policy_reorder"
    /\ \E i \in ChunkIds(run.pre_chunks) :
          run.pre_chunks[i].hypertable_id = jobs[run.job].config.hypertable_id
    /\ run.ok

\* a compression run found no chunk ending before the boundary
C25_CompressionWitness ==
    /\ NothingToDo
    /\ run.op = "policy_compression"
    /\ run.ok

\* C26: a run of one of the four policies inserts no job, deletes no job and
\* changes no field of a job; of the job statistics it writes at most next_start
\* of the job that ran, and only in a run that asked for a fast restart
C26_PolicyRunFrame ==
    [][/\ jobs' = jobs
       /\ jobSeq' = jobSeq
       /\ \A j \in JobIds :
             jobStat'[j] # jobStat[j] =>
                /\ run'.restart
                /\ j = run'.job
                /\ jobStat'[j].exists
                /\ jobStat'[j].last_start = jobStat[j].last_start
                /\ jobStat'[j].last_finish = jobStat[j].last_finish]_vars

\* a policy run asked for a fast restart and next_start of its job moved
C26_Witness ==
    /\ run.op \in PolicyProcs
    /\ run.restart
    /\ jobs[run.job].exists
    /\ jobStat[run.job].next_start # run.pre_stat[run.job].next_start

(***************************************************************************)
(* Claims about the dispatch of job_execute                                *)
(***************************************************************************)
\* C27: when the callable resolved by job_execute is neither a function nor a
\* procedure, the call ends in FeatureNotSupported, the callable is not invoked
\* and job_execute commits no transaction
C27_UnsupportedKindNotInvoked ==
    (prokind \in ProKinds \ {PROKIND_FUNCTION, PROKIND_PROCEDURE} /\ pc # "ready") =>
       /\ pc = "error"
       /\ errcode = "FeatureNotSupported"
       /\ dispatches = 0
       /\ callable = "none"
       /\ execCommits = <<>>
       /\ xid \notin committed

\* job_execute opened a transaction, resolved an aggregate and left with the error
C27_Witness ==
    /\ errcode = "FeatureNotSupported"
    /\ prokind = "a"
    /\ transaction_started
    /\ xactOpen

(***************************************************************************)
(* alter_job calls and a policy run of one job at the same time            *)
(***************************************************************************)
\* the arguments of the alter_job calls: one field each
ConcurrentArgs ==
    {[NoArgs EXCEPT !.max_runtime = <<3>>], [NoArgs EXCEPT !.max_retries = <<2>>],
     [NoArgs EXCEPT !.next_start = <<3>>]}

\* job_api.c:358-375: find_job reads the row under the snapshot of the statement,
\* without a lock, and the arguments that are not NULL are copied into that BgwJob
AlterFindJob ==
    \E p \in Sessions, args \in ConcurrentArgs :
       /\ sessions[p].pc = "idle"
       /\ find_job(jobs, <<1>>, FALSE) = ""
       /\ LET Arg(a, old) == IF PG_ARGISNULL(a) THEN old ELSE PG_GETARG(a)
              job == [jobs[1] EXCEPT
                         !.schedule_interval = Arg(args.schedule_interval, @),
                         !.max_runtime = Arg(args.max_runtime, @),
                         !.max_retries = Arg(args.max_retries, @),
                         !.retry_period = Arg(args.retry_period, @),
                         !.scheduled = Arg(args.scheduled, @),
                         !.config = Arg(args.config, @)]
          IN sessions' = [sessions EXCEPT ![p] = [pc |-> "found", args |-> args,
                                                  job |-> job, new_tuple |-> NoJob]]
       /\ UNCHANGED <<worker, tuplock, now, hypertables, chunks, chunkStats, jobs, jobSeq,
                      jobStat, run, call>>
       /\ UNCHANGED execVars

\* a scan that takes the tuple lock without waiting for its holder
AlterLockTupleNoWait ==
    \E p \in Sessions :
       /\ sessions[p].pc = "found"
       /\ tuplock' = p
       /\ sessions' = [sessions EXCEPT ![p].pc = "locked"]
       /\ UNCHANGED <<worker, now, hypertables, chunks, chunkStats, jobs, jobSeq, jobStat,
                      run, call>>
       /\ UNCHANGED execVars

\* job_api.c:269-297: the scan on the primary key index for the job id locks the
\* tuple it finds (LockTupleExclusive) and waits for the holder of the lock
\* (LockWaitBlock): the step is taken when no other backend holds it
AlterLockTuple ==
    \E p \in Sessions :
       /\ sessions[p].pc = "found"
       /\ tuplock = 0
       /\ tuplock' = p
       /\ sessions' = [sessions EXCEPT ![p].pc = "locked"]
       /\ UNCHANGED <<worker, now, hypertables, chunks, chunkStats, jobs, jobSeq, jobStat,
                      run, call>>
       /\ UNCHANGED execVars

\* job_api.c:185-263: the tuple found by the scan is rewritten from the BgwJob; the
\* new version is seen by other backends once the transaction commits
AlterUpdateTuple ==
    \E p \in Sessions :
       /\ sessions[p].pc = "locked"
       /\ \E r \in {bgw_job_tuple_update_by_id(jobs, jobStat, jobSeq, hypertables, now, 1,
                                               sessions[p].job)} :
             /\ sessions' = [sessions EXCEPT ![p].pc = "updated",
                                             ![p].new_tuple = r.jobs[1]]
             /\ jobStat' = r.jobStat
       /\ UNCHANGED <<worker, tuplock, now, hypertables, chunks, chunkStats, jobs, jobSeq,
                      run, call>>
       /\ UNCHANGED execVars

\* job_api.c:379-380
AlterUpsertNextStart ==
    \E p \in Sessions :
       /\ sessions[p].pc = "updated"
       /\ sessions' = [sessions EXCEPT ![p].pc = "upserted"]
       /\ jobStat' = IF PG_ARGISNULL(sessions[p].args.next_start) THEN jobStat
                     ELSE ts_bgw_job_stat_upsert_next_start(
                             jobStat, 1, PG_GETARG(sessions[p].args.next_start))
       /\ UNCHANGED <<worker, tuplock, now, hypertables, chunks, chunkStats, jobs, jobSeq,
                      run, call>>
       /\ UNCHANGED execVars

\* the statement ends: its transaction commits, the new row version becomes the
\* row and the tuple lock is released
AlterCommit ==
    \E p \in Sessions :
       /\ sessions[p].pc = "upserted"
       /\ sessions' = [sessions EXCEPT ![p].pc = "done"]
       /\ jobs' = [jobs EXCEPT ![1] = sessions[p].new_tuple]
       /\ tuplock' = IF tuplock = p THEN 0 ELSE tuplock
       /\ UNCHANGED <<worker, now, hypertables, chunks, chunkStats, jobSeq, jobStat, run,
                      call>>
       /\ UNCHANGED execVars

\* fast restart that starts the job one period after its last start
enable_fast_restart_write_next_period(stats, job_id, job_stat, t) ==
    IF job_stat.exists
    THEN ts_bgw_job_stat_set_next_start(stats, job_id, job_stat.last_start + 1)
    ELSE ts_bgw_job_stat_upsert_next_start(stats, job_id, t + 1)

\* job.c:58-62: the write of enable_fast_restart, given the row job_stat that its
\* lookup at job.c:56 returned
enable_fast_restart_write(stats, job_id, job_stat, t) ==
    IF job_stat.exists
    THEN ts_bgw_job_stat_set_next_start(stats, job_id, job_stat.last_start)
    ELSE ts_bgw_job_stat_upsert_next_start(stats, job_id, t)

\* job.c:363-393, 56: the compression run of job 1 up to the lookup of its
\* statistics in enable_fast_restart
WorkerRunPolicy ==
    /\ worker.pc = "idle"
    /\ \E r \in {policy_compression_execute(1, jobs[1].config, hypertables, chunks,
                                            chunkStats, jobStat, now)} :
          /\ chunks' = r.chunks
          /\ worker' = [pc |-> "ran", job |-> 1,
                        job_stat |-> ts_bgw_job_stat_find(jobStat, 1),
                        restart |-> r.restart]
    /\ UNCHANGED <<sessions, tuplock, now, hypertables, chunkStats, jobs, jobSeq, jobStat,
                   run, call>>
    /\ UNCHANGED execVars

\* job.c:58-62, 395-398: the write of enable_fast_restart, and the end of the run
WorkerFastRestart ==
    /\ worker.pc = "ran"
    /\ worker' = [worker EXCEPT !.pc = "done"]
    /\ jobStat' = IF worker.restart
                  THEN enable_fast_restart_write(jobStat, worker.job, worker.job_stat, now)
                  ELSE jobStat
    /\ UNCHANGED <<sessions, tuplock, now, hypertables, chunks, chunkStats, jobs, jobSeq,
                   run, call>>
    /\ UNCHANGED execVars

\* one compression job with its chunks, two client backends and the worker
InitConcurrent ==
    /\ InitExec
    /\ now = MaxTime
    /\ hypertables = {1, 2}
    /\ chunks \in ChunkSeqs(2, {"plain"})
    /\ chunkStats = {}
    /\ jobs = [j \in JobIds |->
                 IF j = 1 THEN PolicyJob("policy_compression", Doc(1, "", 0, 0, 0))
                 ELSE NoJob]
    /\ jobSeq = 1
    /\ \E st \in StatInits : jobStat = [j \in JobIds |-> IF j = 1 THEN st ELSE NoStat]
    /\ run = NoRun
    /\ call = NoCall
    /\ InitBackendsIdle

NextConcurrent ==
    \/ AlterFindJob
    \/ AlterLockTuple
    \/ AlterUpdateTuple
    \/ AlterUpsertNextStart
    \/ AlterCommit
    \/ WorkerRunPolicy
    \/ WorkerFastRestart

SpecConcurrent == InitConcurrent /\ [][NextConcurrent]_vars

\* the backends that have written a new version of the row and not yet committed
Writers == {p \in Sessions : sessions[p].pc \in {"updated", "upserted"}}

\* C28: a backend in alter_job writes the job row only while it holds the tuple
\* lock on it, so no two backends write the row at the same time; and a backend
\* that has found the job goes on only by taking the lock when no other backend
\* holds it: it waits, it neither skips the update nor writes without the lock
C28_AlterUnderTupleLock ==
    /\ [](\A p \in Writers : tuplock = p)
    /\ [](Cardinality(Writers) <= 1)
    /\ [][\A p \in Sessions :
             (sessions[p].pc = "found" /\ sessions'[p].pc # "found") =>
                /\ sessions'[p].pc = "locked"
                /\ tuplock = 0
                /\ tuplock' = p]_vars

\* one backend waits with the job found while the other one has written the row
C28_Witness ==
    \E p, q \in Sessions :
       /\ sessions[p].pc = "found"
       /\ sessions[q].pc = "updated"
       /\ tuplock = q

\* the row has every field that a finished alter_job call set
FieldsKept ==
    \A p \in Sessions :
       /\ ~PG_ARGISNULL(sessions[p].args.max_runtime) =>
             jobs[1].max_runtime = PG_GETARG(sessions[p].args.max_runtime)
       /\ ~PG_ARGISNULL(sessions[p].args.max_retries) =>
             jobs[1].max_retries = PG_GETARG(sessions[p].args.max_retries)

\* C29: after two alter_job calls on one job that set different fields have both
\* completed, the row holds both new values
C29_BothAltersKept ==
    (/\ \A p \in Sessions : sessions[p].pc = "done"
     /\ sessions[1].args # sessions[2].args) => FieldsKept

\* an alter_job call that set next_start and a run that asked for a fast restart
\* have both completed
AlterAndRestartDone ==
    /\ worker.pc = "done"
    /\ worker.restart
    /\ \E p \in Sessions : /\ sessions[p].pc = "done"
                           /\ ~PG_ARGISNULL(sessions[p].args.next_start)
    /\ \A p \in Sessions : \/ sessions[p].pc \in {"idle", "done"}
                           \/ PG_ARGISNULL(sessions[p].args.next_start)

\* the values of next_start that the alter_job calls gave
GivenNextStarts ==
    {PG_GETARG(sessions[p].args.next_start) :
        p \in {q \in Sessions : ~PG_ARGISNULL(sessions[q].args.next_start)}}

\* C30 as stated: after alter_job(next_start = X) and a run with a fast restart,
\* next_start is X or the last_start that the run read
C30_NextStartLastWriteOfTwo ==
    AlterAndRestartDone =>
       jobStat[1].next_start \in GivenNextStarts \cup {worker.job_stat.last_start}

\* C30: after alter_job(next_start = X) and a run with a fast restart, next_start
\* is X or what the fast restart wrote: the last_start of the row the run read, or
\* the current time when the run found no row; and no step of the run changes a
\* job row
C30_NextStartLastWrite ==
    /\ [](AlterAndRestartDone =>
             jobStat[1].next_start \in
                GivenNextStarts \cup {IF worker.job_stat.exists
                                      THEN worker.job_stat.last_start ELSE now})
    /\ [][worker' # worker => jobs' = jobs]_vars

\* the write of the run came last for a job that had no statistics when the run
\* looked for them
C30_Witness ==
    /\ AlterAndRestartDone
    /\ ~worker.job_stat.exists
    /\ jobStat[1].next_start = now

(***************************************************************************)
(* Claims about runs of a policy job on a catalog that changes             *)
(***************************************************************************)
\* the storage action act works on what the validator resolved as target
ActsOn(op, act, target, chs) ==
    CASE op = "policy_retention" ->
            /\ act.kind = "drop_chunks"
            /\ <<act.relid, act.boundary>> = target
      [] op = "policy_refresh_continuous_aggregate" ->
            /\ act.kind = "refresh"
            /\ <<act.cagg, act.start, act.end>> = target
      [] op = "policy_reorder" ->
            /\ act.kind = "reorder"
            /\ chs[act.chunkid].hypertable_id = target[1]
      [] op = "policy_compression" ->
            /\ act.kind = "compress"
            /\ chs[act.chunkid].hypertable_id = target[1]

\* C31: every run of a policy job validates the config of the job against the
\* catalog as it is at that run: a run whose validation fails ends in the error
\* of the validator and issues no storage action, and a storage action that is
\* issued works on what the validation of that run resolved, not on what an
\* earlier run or add_job found
C31_ValidatedEveryRun ==
    [][(run'.op \in PolicyProcs /\ call' = call) =>
          LET v == ReadAndValidate(run'.op, hypertables, jobs[run'.job].config, now)
          IN /\ v.err # "" => /\ ~run'.ok
                              /\ run'.err = v.err
                              /\ run'.action = <<>>
                              /\ chunks' = chunks
             /\ run'.action # <<>> => /\ v.err = ""
                                      /\ ActsOn(run'.op, run'.action[1], v.target,
                                                chunks)]_vars

\* a retention job dropped chunks of its hypertable in one run, and a later run,
\* after the hypertable was dropped, failed in the validation
C31_Witness ==
    /\ run.op = "policy_retention"
    /\ ~run.ok
    /\ run.err = "InvalidParameter"
    /\ call.op = "drop"
    /\ jobs[run.job].config.hypertable_id = 1
    /\ \E i \in ChunkIds(chunks) : chunks[i].dropped

(***************************************************************************)
(* Claims about the runs of one reorder job (SpecReorder)                  *)
(***************************************************************************)
\* C32: in every run of a reorder job at most one chunk is reordered; a run that
\* reordered a chunk records that chunk for the job in the chunk statistics, and
\* the chunk had no record for the job before, so over all runs of the job no
\* chunk is reordered twice; a run that reordered nothing records nothing
C32_ReorderedAtMostOnce ==
    [][run'.op = "policy_reorder" =>
          LET recorded == chunkStats' \ chunkStats
          IN /\ chunkStats \subseteq chunkStats'
             /\ Cardinality(recorded) <= 1
             /\ (run'.ok /\ run'.chunkid > 0) =>
                   recorded = {<<run'.job, run'.chunkid>>}
             /\ ~(run'.ok /\ run'.chunkid > 0) => recorded = {}]_vars

\* the job has reordered two chunks in two runs, and its last run found the
\* chunks that are left all recorded or not eligible
C32_Witness ==
    /\ run.op = "policy_reorder"
    /\ run.ok
    /\ run.chunkid = -1
    /\ Cardinality(chunkStats) = 2

\* C33: a reorder run that reordered a chunk asks for a fast restart exactly when
\* the job still finds a chunk to reorder once the run is recorded in the chunk
\* statistics; and with the chunks fixed, the runs that the scheduler starts come
\* to a point from which every eligible chunk is reordered and recorded and no
\* run asks for a fast restart any more
C33_RestartWhileChunksRemain ==
    /\ []((run.op = "policy_reorder" /\ run.ok /\ run.chunkid > 0) =>
             (run.restart <=>
                 get_chunk_id_to_reorder(chunks, chunkStats, run.job,
                                         jobs[run.job].config.hypertable_id) # -1))
    /\ <>[](/\ run.op = "policy_reorder"
            /\ ~run.restart
            /\ get_chunk_id_to_reorder(chunks, chunkStats, 1,
                                       jobs[1].config.hypertable_id) = -1)

\* a run reordered a chunk and asked for a fast restart: another chunk is left
C33_Witness ==
    /\ run.op = "policy_reorder"
    /\ run.ok
    /\ run.chunkid > 0
    /\ run.restart
    /\ get_chunk_id_to_reorder(chunks, chunkStats, 1, 1) # -1

\* C34: whenever job_execute dispatches the callable, a transaction is open and
\* not yet committed and a snapshot is active, taken in that transaction,
\* whether the call was entered with no transaction, inside a transaction without
\* a snapshot or inside a transaction with snapshots
C34_DispatchInTransactionWithSnapshot ==
    [][dispatches' = dispatches + 1 =>
          /\ xactOpen
          /\ xid \notin committed
          /\ ActiveSnapshotSet(snapStack)
          /\ Top(snapStack).xid = xid
          /\ entry.open => xid = entry.xid
          /\ entry.stack # <<>> => snapStack = entry.stack]_vars

\* the callable was dispatched in a call entered inside a transaction that had
\* no active snapshot
C34_Witness ==
    /\ pc = "returned"
    /\ dispatches = 1
    /\ callable = "plain"
    /\ entry.open
    /\ entry.stack = <<>>
    /\ ActiveSnapshotSet(snapStack)

\* C35: a call of job_execute that succeeded, with a callable that neither
\* committed nor changed the snapshot stack, leaves the ambient state as it found
\* it: entered with no transaction, no transaction is open and no snapshot is
\* active at the end; entered inside a transaction, that transaction is still
\* open and uncommitted and the snapshot stack is the one found at entry
C35_AmbientStateRestored ==
    (pc = "done" /\ callable = "plain") =>
       /\ ~entry.open => (~xactOpen /\ ~ActiveSnapshotSet(snapStack))
       /\ entry.open => /\ xactOpen
                        /\ xid = entry.xid
                        /\ xid \notin committed
                        /\ Len(snapStack) = Len(entry.stack)
                        /\ snapStack = entry.stack

\* a call entered inside a transaction without a snapshot has succeeded: the
\* snapshot it pushed is gone, the transaction is still open
C35_Witness ==
    /\ pc = "done"
    /\ callable = "plain"
    /\ entry.open
    /\ entry.stack = <<>>
    /\ pushed_snapshot
    /\ xactOpen
    /\ snapStack = <<>>

====
